---- MODULE Spec2Model ----
(***************************************************************************)
(* A model of findminhs: the reversible hypergraph instance                *)
(* (src/src/instance.rs), the branch-and-bound driver (src/src/solve.rs)   *)
(* and the edge-packing lower bound (src/src/lower_bound.rs).              *)
(*                                                                         *)
(* Ids are 0-based as in the source; vectors are functions over 0..len-1.  *)
(* The containers SkipVec and ContiguousIdxVec, the reducer                *)
(* (subsuperset::prune), the activity tracker and a few Instance queries   *)
(* are not part of the source files at hand; they are modelled from        *)
(* sections 4.1, 4.2, 4.4, 4.5 and 4.7 of the specification.               *)
(***************************************************************************)
EXTENDS Integers, Sequences, FiniteSets, TLC

\* ------------------------------------------------------------------ bounds
\* Largest number of vertices of a modelled instance.
MaxNodes == 2
\* Largest number of incidences (vertex occurrences over all edge lines).
MaxIncidences == 3
\* Largest number of delete operations outstanding on an instance.
MaxOps == 3

\* The sentinel of create_idx_struct! (u32::MAX in the source): larger than
\* every index a bounded instance holds.
INVALID == 999

\* ------------------------------------------------------------- utilities
Min(a, b) == IF a < b THEN a ELSE b
Max(a, b) == IF a > b THEN a ELSE b
Range(f) == {f[x] : x \in DOMAIN f}
Last(s) == s[Len(s)]
Front(s) == SubSeq(s, 1, Len(s) - 1)
Reverse(s) == [k \in 1..Len(s) |-> s[Len(s) + 1 - k]]

\* A vector with slots 0..Len(s)-1 from a sequence.
Vec(s) == [i \in 0..Len(s) - 1 |-> s[i + 1]]
VecLen(v) == Cardinality(DOMAIN v)
VecSeq(v) == [k \in 1..VecLen(v) |-> v[k - 1]]

\* Lexicographic order on pairs of numbers.
PairLess(a, b) == a[1] < b[1] \/ (a[1] = b[1] /\ a[2] < b[2])

\* Every order a sort by key can leave the elements of S in: an unstable sort
\* orders elements of equal key arbitrarily.  S is a set of records
\* [key |-> <<a, b>>, item |-> x]; the result is a set of sequences of items.
RECURSIVE SortedOrders(_)
SortedOrders(S) ==
    IF S = {} THEN {<<>>}
    ELSE UNION { { <<x.item>> \o r : r \in SortedOrders(S \ {x}) } :
                 x \in {y \in S : \A z \in S : ~PairLess(z.key, y.key)} }

\* ------------------------------------------- the record of a container
\* Every container carries the record of its own delete and restore events:
\* `deleted`, the ids deleted and not yet restored, oldest first, and `lifo`,
\* whether every event so far kept the discipline of sections 4.1 and 4.2 (a
\* delete of a live id, a restore of the id deleted last).
DeleteEvent(c, id) ==
    [c EXCEPT !.lifo = @ /\ id \notin Range(c.deleted),
              !.deleted = Append(c.deleted, id)]

RestoreEvent(c, id) ==
    LET d  == c.deleted
        at == CHOOSE k \in DOMAIN d : d[k] = id /\ \A m \in DOMAIN d : d[m] = id => m <= k
    IN  [c EXCEPT !.lifo = @ /\ d # <<>> /\ Last(d) = id,
                  !.deleted = IF id \in Range(d)
                              THEN SubSeq(d, 1, at - 1) \o SubSeq(d, at + 1, Len(d))
                              ELSE d]

\* ------------------------------------------------------------- SkipVec
\* Section 4.2: a fixed-capacity sequence with a doubly-linked list over the
\* slot array.  delete unlinks a slot and keeps its own prev/next; restore
\* links it back between the neighbours it remembers.
SV_Empty ==
    [value |-> <<>>, prev |-> <<>>, next |-> <<>>,
     first |-> INVALID, last |-> INVALID, len |-> 0,
     deleted |-> <<>>, lifo |-> TRUE]

SV_WithLen(n, fill) ==
    [value |-> [i \in 0..n - 1 |-> fill],
     prev  |-> [i \in 0..n - 1 |-> IF i = 0 THEN INVALID ELSE i - 1],
     next  |-> [i \in 0..n - 1 |-> IF i = n - 1 THEN INVALID ELSE i + 1],
     first |-> IF n = 0 THEN INVALID ELSE 0,
     last  |-> IF n = 0 THEN INVALID ELSE n - 1,
     len   |-> n,
     deleted |-> <<>>, lifo |-> TRUE]

SV_Cap(sv) == VecLen(sv.value)
SV_InBounds(sv, j) == j \in DOMAIN sv.value

SV_Delete(sv, j) ==
    LET p  == sv.prev[j]
        nx == sv.next[j]
        a  == IF p = INVALID THEN [sv EXCEPT !.first = nx]
              ELSE [sv EXCEPT !.next[p] = nx]
        b  == IF nx = INVALID THEN [a EXCEPT !.last = p]
              ELSE [a EXCEPT !.prev[nx] = p]
    IN  DeleteEvent([b EXCEPT !.len = @ - 1], j)

SV_Restore(sv, j) ==
    LET p  == sv.prev[j]
        nx == sv.next[j]
        a  == IF p = INVALID THEN [sv EXCEPT !.first = j]
              ELSE [sv EXCEPT !.next[p] = j]
        b  == IF nx = INVALID THEN [a EXCEPT !.last = j]
              ELSE [a EXCEPT !.prev[nx] = j]
    IN  RestoreEvent([b EXCEPT !.len = @ + 1], j)

\* iter(): the slots met following next from first (at most capacity many).
RECURSIVE SV_Walk(_, _, _)
SV_Walk(sv, cur, fuel) ==
    IF cur = INVALID \/ fuel = 0 THEN <<>>
    ELSE <<cur>> \o SV_Walk(sv, sv.next[cur], fuel - 1)

SV_Iter(sv) == SV_Walk(sv, sv.first, SV_Cap(sv))

\* iter().rev(): the slots met following prev from last.
RECURSIVE SV_WalkBack(_, _, _)
SV_WalkBack(sv, cur, fuel) ==
    IF cur = INVALID \/ fuel = 0 THEN <<>>
    ELSE <<cur>> \o SV_WalkBack(sv, sv.prev[cur], fuel - 1)

SV_IterRev(sv) == SV_WalkBack(sv, sv.last, SV_Cap(sv))

SV_Len(sv) == sv.len

\* The live slots of a skip-vector, as a set.
SV_Live(sv) == Range(SV_Iter(sv))

\* ---------------------------------------------------- ContiguousIdxVec
\* Section 4.1: a dense array of ids with a position map and a live prefix.
\* delete swaps the id with the last live id and shrinks the prefix, keeping
\* the id's old position; restore grows the prefix and swaps the re-exposed
\* id back to the stored position.
CIV_New(n) ==
    [data |-> [i \in 0..n - 1 |-> i], pos |-> [i \in 0..n - 1 |-> i], len |-> n,
     deleted |-> <<>>, lifo |-> TRUE]

CIV_Delete(c, id) ==
    LET p     == c.pos[id]
        l     == c.len - 1
        other == c.data[l]
    IN  DeleteEvent([c EXCEPT !.data = [c.data EXCEPT ![p] = other, ![l] = id],
                              !.pos  = [c.pos EXCEPT ![other] = p],
                              !.len  = l], id)

CIV_Restore(c, id) ==
    LET l     == c.len
        p     == c.pos[id]
        back  == c.data[l]
        other == c.data[p]
    IN  RestoreEvent([c EXCEPT !.data = [c.data EXCEPT ![l] = other, ![p] = back],
                               !.pos  = [c.pos EXCEPT ![other] = l],
                               !.len  = l + 1], id)

\* live(): the live prefix, in its internal order.
CIV_Live(c) == [k \in 1..c.len |-> c.data[k - 1]]
CIV_LiveSet(c) == {c.data[i] : i \in 0..c.len - 1}

\* ------------------------------------------------------- Instance::load
\* The input is a sequence of lines, a line a sequence of whitespace-separated
\* tokens, a token a string.  str::parse reads a token as a number or fails.
Digits == <<"0", "1", "2", "3", "4", "5", "6", "7", "8", "9">>

Parse(tok) ==
    IF \E k \in 1..Len(Digits) : Digits[k] = tok
    THEN [ok |-> TRUE, val |-> (CHOOSE k \in 1..Len(Digits) : Digits[k] = tok) - 1]
    ELSE [ok |-> FALSE, val |-> 0]

\* read_line: the k-th line, or the empty line at the end of the input.
ReadLine(input, k) == IF k <= Len(input) THEN input[k] ELSE <<>>

LoadErr(msg) == [ok |-> FALSE, err |-> msg]

\* One edge line (instance.rs 44-57): the degree, then the vertex ids zipped
\* with the degree slots of a fresh skip-vector.  The zip stops at the shorter
\* of the two: tokens after the degree-th id are never looked at, and slots
\* without a token keep (INVALID, INVALID).
EdgeLine(line) ==
    IF Len(line) = 0 THEN LoadErr("empty edge line in input, expected degree")
    ELSE IF ~Parse(line[1]).ok THEN LoadErr("parse")
    ELSE LET degree == Parse(line[1]).val
             cnt    == Min(Len(line) - 1, degree)
         IN  IF ~(degree > 0) THEN LoadErr("edges may not be empty")
             ELSE IF \E k \in 1..cnt : ~Parse(line[k + 1]).ok THEN LoadErr("parse")
             ELSE [ok |-> TRUE,
                   incidences |->
                       [SV_WithLen(degree, <<INVALID, INVALID>>) EXCEPT
                           !.value = [i \in 0..degree - 1 |->
                               IF i < cnt THEN <<Parse(line[i + 2]).val, INVALID>>
                               ELSE <<INVALID, INVALID>>]]]

\* The edge lines 2..num_edges+1 in order (instance.rs 42-58): the first
\* failing line aborts the load.
RECURSIVE EdgeLines(_, _, _)
EdgeLines(input, k, num_edges) ==
    IF k > num_edges THEN [ok |-> TRUE, edge_incidences |-> <<>>]
    ELSE LET one == EdgeLine(ReadLine(input, k + 1))
         IN  IF ~one.ok THEN one
             ELSE LET rest == EdgeLines(input, k + 1, num_edges)
                  IN  IF ~rest.ok THEN rest
                      ELSE [ok |-> TRUE,
                            edge_incidences |-> <<one.incidences>> \o rest.edge_incidences]

\* all_incidences (instance.rs 60-68): every (edge, slot) pair.
AllIncidences(edge_incidences) ==
    UNION {{<<e, j>> : j \in DOMAIN edge_incidences[e].value} : e \in DOMAIN edge_incidences}

\* The ways sort_unstable_by_key can order them (instance.rs 69-73): by the
\* vertex id of the entry, then by the edge id.
SortedIncidences(edge_incidences) ==
    SortedOrders({[key |-> <<edge_incidences[p[1]].value[p[2]][1], p[1]>>, item |-> p] :
                  p \in AllIncidences(edge_incidences)})

\* The loop over the vertices (instance.rs 75-99): vertex node_idx takes the
\* leading run of the remaining incidences that name it, one slot each, and
\* back-patches the slot into the edge's entry.
RECURSIVE BuildNodes(_, _, _, _)
BuildNodes(node_idx, num_nodes, rem, acc) ==
    IF node_idx >= num_nodes THEN acc
    ELSE LET ei     == acc.edge_incidences
             runs   == {d \in 0..Len(rem) :
                            \A k \in 1..d : ei[rem[k][1]].value[rem[k][2]][1] = node_idx}
             degree == CHOOSE d \in runs : d + 1 \notin runs
             patched == [e \in DOMAIN ei |->
                            [ei[e] EXCEPT !.value = [j \in DOMAIN ei[e].value |->
                                IF \E k \in 1..degree : rem[k] = <<e, j>>
                                THEN <<ei[e].value[j][1],
                                       (CHOOSE k \in 1..degree : rem[k] = <<e, j>>) - 1>>
                                ELSE ei[e].value[j]]]]
             incidences == [SV_WithLen(degree, <<INVALID, INVALID>>) EXCEPT
                                !.value = [i \in 0..degree - 1 |-> rem[i + 1]]]
         IN  BuildNodes(node_idx + 1, num_nodes, SubSeq(rem, degree + 1, Len(rem)),
                        [edge_incidences |-> patched,
                         node_incidences |-> acc.node_incidences \o <<incidences>>])

\* Instance::load (instance.rs 22-113): every result the load can have on
\* this input, an error or an instance.  `panic` is not a field of the
\* struct: it records that an operation indexed out of bounds and aborted.
load(input) ==
    LET header == ReadLine(input, 1)
    IN  IF Len(header) < 1 THEN {LoadErr("Missing node count")}
        ELSE IF ~Parse(header[1]).ok THEN {LoadErr("parse")}
        ELSE IF Len(header) < 2 THEN {LoadErr("Missing edge count")}
        ELSE IF ~Parse(header[2]).ok THEN {LoadErr("parse")}
        ELSE IF Len(header) > 2 THEN {LoadErr("Too many numbers in first input line")}
        ELSE LET num_nodes == Parse(header[1]).val
                 num_edges == Parse(header[2]).val
                 lines     == EdgeLines(input, 1, num_edges)
             IN  IF ~lines.ok THEN {lines}
                 ELSE LET ei == Vec(lines.edge_incidences)
                      IN  { LET built == BuildNodes(0, num_nodes, order,
                                             [edge_incidences |-> ei,
                                              node_incidences |-> <<>>])
                            IN  [ok |-> TRUE,
                                 instance |->
                                    [nodes |-> CIV_New(num_nodes),
                                     edges |-> CIV_New(num_edges),
                                     node_incidences |-> Vec(built.node_incidences),
                                     edge_incidences |-> built.edge_incidences,
                                     panic |-> FALSE]]
                            : order \in SortedIncidences(ei) }

\* ------------------------------------------------- Instance: queries
num_nodes_total(instance) == VecLen(instance.node_incidences)
num_edges_total(instance) == VecLen(instance.edge_incidences)

\* The values of the live slots of a skip-vector, in iteration order.
SV_Values(sv) == [k \in 1..Len(SV_Iter(sv)) |-> sv.value[SV_Iter(sv)[k]]]
SV_ValuesRev(sv) == [k \in 1..Len(SV_IterRev(sv)) |-> sv.value[SV_IterRev(sv)[k]]]

\* node(v): the edge ids of the live entries of node_incidences[v].
node(instance, node_idx) ==
    [k \in 1..Len(SV_Values(instance.node_incidences[node_idx])) |->
        SV_Values(instance.node_incidences[node_idx])[k][1]]

\* edge(e): the vertex ids of the live entries of edge_incidences[e].
edge(instance, edge_idx) ==
    [k \in 1..Len(SV_Values(instance.edge_incidences[edge_idx])) |->
        SV_Values(instance.edge_incidences[edge_idx])[k][1]]

nodes(instance) == CIV_Live(instance.nodes)
edges(instance) == CIV_Live(instance.edges)
node_degree(instance, node_idx) == SV_Len(instance.node_incidences[node_idx])
edge_degree(instance, edge_idx) == SV_Len(instance.edge_incidences[edge_idx])

\* ------------------------------------------------ Instance: mutation
\* delete (restore = FALSE) or restore (restore = TRUE) the slots named by
\* `targets`, a sequence of (vector, slot) pairs, in order.  Indexing a vector
\* or a slot that does not exist panics and ends the operation.
RECURSIVE SlotOps(_, _, _)
SlotOps(vecs, targets, restore) ==
    IF targets = <<>> THEN [vecs |-> vecs, panic |-> FALSE]
    ELSE LET t == Head(targets)
         IN  IF t[1] \notin DOMAIN vecs THEN [vecs |-> vecs, panic |-> TRUE]
             ELSE IF ~SV_InBounds(vecs[t[1]], t[2]) THEN [vecs |-> vecs, panic |-> TRUE]
             ELSE SlotOps([vecs EXCEPT ![t[1]] =
                              IF restore THEN SV_Restore(@, t[2]) ELSE SV_Delete(@, t[2])],
                          Tail(targets), restore)

Panicked(instance) == [instance EXCEPT !.panic = TRUE]

\* The (vector, slot) pairs delete_node and delete_edge visit, in the order of
\* their loop over the incidence list (instance.rs 161, 170), and the pairs
\* restore_node and restore_edge visit (instance.rs 182, 194): both loops walk
\* the list front to back.
delete_slots(incidence) == SV_Values(incidence)
restore_slots(incidence) == SV_Values(incidence)

\* instance.rs 159-165
delete_node(instance, node_idx) ==
    IF instance.panic \/ node_idx \notin DOMAIN instance.node_incidences
    THEN Panicked(instance)
    ELSE LET r == SlotOps(instance.edge_incidences,
                          delete_slots(instance.node_incidences[node_idx]), FALSE)
         IN  IF r.panic THEN Panicked([instance EXCEPT !.edge_incidences = r.vecs])
             ELSE [instance EXCEPT !.edge_incidences = r.vecs,
                                   !.nodes = CIV_Delete(@, node_idx)]

\* delete_edge that takes the edge out of the live set only and leaves its
\* slots live in the lists of its vertices.
delete_edge_live_set_only(instance, edge_idx) ==
    IF instance.panic \/ edge_idx \notin DOMAIN instance.edge_incidences
    THEN Panicked(instance)
    ELSE [instance EXCEPT !.edges = CIV_Delete(@, edge_idx)]

\* instance.rs 168-174
delete_edge(instance, edge_idx) ==
    IF instance.panic \/ edge_idx \notin DOMAIN instance.edge_incidences
    THEN Panicked(instance)
    ELSE LET r == SlotOps(instance.node_incidences,
                          delete_slots(instance.edge_incidences[edge_idx]), FALSE)
         IN  IF r.panic THEN Panicked([instance EXCEPT !.node_incidences = r.vecs])
             ELSE [instance EXCEPT !.node_incidences = r.vecs,
                                   !.edges = CIV_Delete(@, edge_idx)]

\* instance.rs 180-186: the incidence list is walked front to back.
restore_node(instance, node_idx) ==
    IF instance.panic \/ node_idx \notin DOMAIN instance.node_incidences
    THEN Panicked(instance)
    ELSE LET r == SlotOps(instance.edge_incidences,
                          restore_slots(instance.node_incidences[node_idx]), TRUE)
         IN  IF r.panic THEN Panicked([instance EXCEPT !.edge_incidences = r.vecs])
             ELSE [instance EXCEPT !.edge_incidences = r.vecs,
                                   !.nodes = CIV_Restore(@, node_idx)]

\* restore_edge that puts the edge back into the live set only and leaves
\* its slots deleted in the lists of its vertices.
restore_edge_live_set_only(instance, edge_idx) ==
    IF instance.panic \/ edge_idx \notin DOMAIN instance.edge_incidences
    THEN Panicked(instance)
    ELSE [instance EXCEPT !.edges = CIV_Restore(@, edge_idx)]

\* instance.rs 192-198: the incidence list is walked front to back.
restore_edge(instance, edge_idx) ==
    IF instance.panic \/ edge_idx \notin DOMAIN instance.edge_incidences
    THEN Panicked(instance)
    ELSE LET r == SlotOps(instance.node_incidences,
                          restore_slots(instance.edge_incidences[edge_idx]), TRUE)
         IN  IF r.panic THEN Panicked([instance EXCEPT !.node_incidences = r.vecs])
             ELSE [instance EXCEPT !.node_incidences = r.vecs,
                                   !.edges = CIV_Restore(@, edge_idx)]

\* delete_edge / restore_edge for each edge of a list, in order.
RECURSIVE EdgeOps(_, _, _)
EdgeOps(instance, edge_ids, restore) ==
    IF edge_ids = <<>> \/ instance.panic THEN instance
    ELSE EdgeOps(IF restore THEN restore_edge(instance, Head(edge_ids))
                 ELSE delete_edge(instance, Head(edge_ids)),
                 Tail(edge_ids), restore)

\* instance.rs 203-218: the vertex's incidence list is moved out (an empty
\* list takes its place), every edge of it is deleted in ascending slot
\* order, and the list moved out is put back as it was.
delete_incident_edges(instance, node_idx) ==
    IF instance.panic \/ node_idx \notin DOMAIN instance.node_incidences
    THEN Panicked(instance)
    ELSE LET incidence == instance.node_incidences[node_idx]
             taken     == [instance EXCEPT !.node_incidences[node_idx] = SV_Empty]
             ids       == [k \in 1..Len(SV_Values(incidence)) |-> SV_Values(incidence)[k][1]]
             done      == EdgeOps(taken, ids, FALSE)
         IN  [done EXCEPT !.node_incidences[node_idx] = incidence]

\* restore_incident_edges without the .rev(): the edges are restored in the
\* order they were deleted in.
restore_incident_edges_forward(instance, node_idx) ==
    IF instance.panic \/ node_idx \notin DOMAIN instance.node_incidences
    THEN Panicked(instance)
    ELSE LET incidence == instance.node_incidences[node_idx]
             taken     == [instance EXCEPT !.node_incidences[node_idx] = SV_Empty]
             ids       == [k \in 1..Len(SV_Values(incidence)) |-> SV_Values(incidence)[k][1]]
             done      == EdgeOps(taken, ids, TRUE)
         IN  [done EXCEPT !.node_incidences[node_idx] = incidence]

\* instance.rs 225-237: as above, restoring the edges in descending slot order.
restore_incident_edges(instance, node_idx) ==
    IF instance.panic \/ node_idx \notin DOMAIN instance.node_incidences
    THEN Panicked(instance)
    ELSE LET incidence == instance.node_incidences[node_idx]
             taken     == [instance EXCEPT !.node_incidences[node_idx] = SV_Empty]
             ids       == [k \in 1..Len(SV_ValuesRev(incidence)) |->
                              SV_ValuesRev(incidence)[k][1]]
             done      == EdgeOps(taken, ids, TRUE)
         IN  [done EXCEPT !.node_incidences[node_idx] = incidence]

\* ------------------------------------------------------- lower_bound.rs
\* Instance::num_edges: the number of live edges (section 4.4).
num_edges(instance) == instance.edges.len

\* The sort key of pack_edges (lower_bound.rs 239-248): (0, 0) for a deleted
\* edge, (sum, max) of the degrees of its vertices for a live one.
RECURSIVE SortKeyFold(_, _, _)
SortKeyFold(instance, node_ids, acc) ==
    IF node_ids = <<>> THEN acc
    ELSE LET degree == node_degree(instance, Head(node_ids))
         IN  SortKeyFold(instance, Tail(node_ids), <<acc[1] + degree, Max(acc[2], degree)>>)

EdgeSortKeys(instance) ==
    [e \in DOMAIN instance.edge_incidences |->
        IF e \in CIV_LiveSet(instance.edges)
        THEN SortKeyFold(instance, edge(instance, e), <<0, 0>>)
        ELSE <<0, 0>>]

\* The retain with a kept edge marking the edges of its first vertex only.
RECURSIVE PackScanFirstVertex(_, _, _)
PackScanFirstVertex(instance, order, blocked) ==
    IF order = <<>> THEN <<>>
    ELSE LET edge_idx == Head(order)
         IN  IF edge_idx \in blocked THEN PackScanFirstVertex(instance, Tail(order), blocked)
             ELSE <<edge_idx>> \o
                  PackScanFirstVertex(instance, Tail(order),
                           blocked \cup UNION {Range(node(instance, node_idx)) :
                                               node_idx \in {edge(instance, edge_idx)[1]}})

\* The retain of lower_bound.rs 220-233: an edge is kept unless an edge kept
\* before it marked it; a kept edge marks every edge incident to its vertices.
RECURSIVE PackScan(_, _, _)
PackScan(instance, order, blocked) ==
    IF order = <<>> THEN <<>>
    ELSE LET edge_idx == Head(order)
         IN  IF edge_idx \in blocked THEN PackScan(instance, Tail(order), blocked)
             ELSE <<edge_idx>> \o
                  PackScan(instance, Tail(order),
                           blocked \cup UNION {Range(node(instance, node_idx)) :
                                               node_idx \in Range(edge(instance, edge_idx))})

\* lower_bound.rs 213-236: every packing the function can return; the unstable
\* sort may leave edges of equal key in any order.
pack_edges_without_local_search(instance, edge_sort_keys) ==
    { PackScan(instance, order, {}) :
      order \in SortedOrders({[key |-> edge_sort_keys[e], item |-> e] :
                              e \in Range(edges(instance))}) }

\* lower_bound.rs 238-255, without the local-search feature.
pack_edges(instance) ==
    pack_edges_without_local_search(instance, EdgeSortKeys(instance))

\* usize::MAX, where a decrement of 0 wraps to in a release build.
UsizeMax == 2147483647

\* max_by_key (lower_bound.rs 265-268): the last vertex of maximal degree.
MaxDegreeNode(instance, node_ids) ==
    LET best == CHOOSE k \in 1..Len(node_ids) :
                    /\ \A i \in 1..Len(node_ids) :
                          node_degree(instance, node_ids[i]) <= node_degree(instance, node_ids[k])
                    /\ \A i \in k + 1..Len(node_ids) :
                          node_degree(instance, node_ids[i]) < node_degree(instance, node_ids[k])
    IN  node_ids[best]

\* degree[node_idx] -= 1 for the vertices of a packed edge, in order.
RECURSIVE Decrement(_, _)
Decrement(acc, node_ids) ==
    IF node_ids = <<>> THEN acc
    ELSE LET v == Head(node_ids)
         IN  Decrement([degree |-> [acc.degree EXCEPT ![v] = IF @ = 0 THEN UsizeMax ELSE @ - 1],
                        underflow |-> acc.underflow \/ acc.degree[v] = 0],
                       Tail(node_ids))

\* The loop over the packing (lower_bound.rs 264-276).
RECURSIVE CalcPacked(_, _, _)
CalcPacked(instance, packing, acc) ==
    IF packing = <<>> \/ acc.panic THEN acc
    ELSE LET node_ids == edge(instance, Head(packing))
         IN  IF node_ids = <<>> THEN [acc EXCEPT !.panic = TRUE]
             ELSE LET max_degree_node == MaxDegreeNode(instance, node_ids)
                      dec == Decrement([degree |-> acc.degree, underflow |-> acc.underflow],
                                       node_ids)
                  IN  CalcPacked(instance, Tail(packing),
                                 [degree |-> [dec.degree EXCEPT ![max_degree_node] = 0],
                                  covered_edges |-> acc.covered_edges
                                                    + node_degree(instance, max_degree_node),
                                  underflow |-> dec.underflow,
                                  panic |-> FALSE])

\* sort_unstable then rev: the values, largest first.
RECURSIVE SortDescending(_)
SortDescending(values) ==
    IF values = <<>> THEN <<>>
    ELSE LET k == CHOOSE k \in 1..Len(values) : \A i \in 1..Len(values) : values[i] <= values[k]
         IN  <<values[k]>> \o
             SortDescending(SubSeq(values, 1, k - 1) \o SubSeq(values, k + 1, Len(values)))

\* The count with <= for <: one vertex more is taken when the packed edges
\* already cover every live edge.
RECURSIVE TakeCountInclusive(_, _, _)
TakeCountInclusive(degrees, covered_edges, live_edges) ==
    IF degrees = <<>> THEN 0
    ELSE IF covered_edges <= live_edges
         THEN 1 + TakeCountInclusive(Tail(degrees), covered_edges + Head(degrees), live_edges)
         ELSE 0

\* take_while(..).count() (lower_bound.rs 279-290).
RECURSIVE TakeCount(_, _, _)
TakeCount(degrees, covered_edges, live_edges) ==
    IF degrees = <<>> THEN 0
    ELSE IF covered_edges < live_edges
         THEN 1 + TakeCount(Tail(degrees), covered_edges + Head(degrees), live_edges)
         ELSE 0

\* lower_bound.rs 257-293.  `underflow` tells whether a residual degree was
\* decremented below zero, `panic` whether a packed edge was empty.
calculate(instance, packing, partial_size) ==
    LET degree0 == [v \in DOMAIN instance.node_incidences |->
                        IF v \in CIV_LiveSet(instance.nodes) THEN node_degree(instance, v)
                        ELSE 0]
        packed  == CalcPacked(instance, packing,
                              [degree |-> degree0, covered_edges |-> 0,
                               underflow |-> FALSE, panic |-> FALSE])
        sum_bound == TakeCount(SortDescending(VecSeq(packed.degree)),
                               packed.covered_edges, num_edges(instance))
    IN  [value |-> IF packed.panic THEN 0 ELSE partial_size + Len(packing) + sum_bound,
         sum_bound |-> IF packed.panic THEN 0 ELSE sum_bound,
         underflow |-> packed.underflow,
         panic |-> packed.panic]

\* ----------------------------------------------------------- the state
VARIABLES
    input,      \* the text handed to Instance::load
    loaded,     \* what load returned, once it has run
    inst,       \* the Instance
    base,       \* the Instance as it was when the operations began
    trail,      \* the delete operations not yet undone (and the slots each visited), oldest first
    unwound,    \* whether the last operation was a restore
    out,        \* the results of the lower-bound functions
    pc,         \* where solve stands: "idle", "search", "returning", "done", "panic"
    state,      \* the State of the search (solve.rs 18-25)
    frames,     \* the frames of solve_recursive, outermost first
    locals,     \* the locals of solve
    result      \* the SolveResult, once solve returned

vars == <<input, loaded, inst, base, trail, unwound, out, pc, state, frames, locals, result>>
solveVars == <<pc, state, frames, locals, result>>

NoState ==
    [incomplete_hs |-> <<>>, discarded |-> <<>>, best_known |-> <<>>,
     activities |-> [live |-> {}], stats |-> [iterations |-> 0]]
NoLocals == [greedy_size |-> 0, reduction |-> <<>>, warned |-> FALSE, matched |-> TRUE]
NoResult == [hs_size |-> 0, greedy_size |-> 0, stats |-> [iterations |-> 0]]

\* solve has not been called.
SolveIdle ==
    /\ pc = "idle"
    /\ state = NoState
    /\ frames = <<>>
    /\ locals = NoLocals
    /\ result = NoResult

NoInstance ==
    [nodes |-> CIV_New(0), edges |-> CIV_New(0),
     node_incidences |-> <<>>, edge_incidences |-> <<>>, panic |-> FALSE]

NotLoaded == [ok |-> FALSE, err |-> "not loaded"]
NoOut == [kind |-> "none"]

\* --------------------------------------------------------- the inputs
\* The text of a hypergraph in the input format of section 6.
Format(n, lines) ==
    << <<Digits[n + 1], Digits[Len(lines) + 1]>> >> \o
    [k \in 1..Len(lines) |->
        <<Digits[Len(lines[k]) + 1]>> \o [i \in 1..Len(lines[k]) |-> Digits[lines[k][i] + 1]]]

\* The edge lines over the vertices 0..n-1 with at most `budget` incidences
\* in all: the vertices of an edge in every order, none repeated (an edge is a
\* set of vertices; the format asks for no particular order).
VertexLines(n, budget) ==
    UNION { {ln \in [1..l -> 0..n - 1] : \A i, j \in 1..l : ln[i] = ln[j] => i = j} :
            l \in 1..budget }

RECURSIVE EdgeSeqs(_, _)
EdgeSeqs(n, budget) ==
    {<<>>} \cup
    UNION { { <<ln>> \o rest : rest \in EdgeSeqs(n, budget - Len(ln)) } :
            ln \in VertexLines(n, budget) }

WellFormedInputs ==
    UNION { {Format(n, es) : es \in EdgeSeqs(n, MaxIncidences)} : n \in 0..MaxNodes }

\* The end-to-end scenarios of section 8 of the specification.
ScenarioInputs ==
    { Format(2, << <<0, 1>> >>),
      Format(3, << <<0, 1>>, <<1, 2>>, <<0, 2>> >>),
      Format(4, << <<0, 1>>, <<1, 2>>, <<2, 3>>, <<3, 0>> >>),
      Format(5, << <<0, 1, 2>>, <<2, 3, 4>>, <<0, 4>> >>),
      Format(6, << <<0, 1, 2>>, <<1, 2, 3>>, <<2, 3, 4>>, <<3, 4, 5>> >>) }

\* ------------------------------------- the instance under its operations
InitInst ==
    /\ input \in WellFormedInputs \cup ScenarioInputs
    /\ loaded = NotLoaded
    /\ inst \in {r.instance : r \in load(input)}
    /\ base = inst
    /\ trail = <<>>
    /\ unwound = FALSE
    /\ out = NoOut
    /\ SolveIdle

LiveNodes(instance) == CIV_LiveSet(instance.nodes)
LiveEdges(instance) == CIV_LiveSet(instance.edges)

DeleteNode(v) ==
    /\ Len(trail) < MaxOps
    /\ v \in LiveNodes(inst)
    /\ inst' = delete_node(inst, v)
    /\ trail' = Append(trail, [op |-> "node", id |-> v,
                              slots |-> delete_slots(inst.node_incidences[v])])
    /\ unwound' = FALSE
    /\ UNCHANGED <<input, loaded, base, out>>
    /\ UNCHANGED solveVars

DeleteEdge(e) ==
    /\ Len(trail) < MaxOps
    /\ e \in LiveEdges(inst)
    /\ inst' = delete_edge(inst, e)
    /\ trail' = Append(trail, [op |-> "edge", id |-> e,
                              slots |-> delete_slots(inst.edge_incidences[e])])
    /\ unwound' = FALSE
    /\ UNCHANGED <<input, loaded, base, out>>
    /\ UNCHANGED solveVars

\* delete_incident_edges asks for a deleted vertex (instance.rs 212); the
\* edges it deletes must be live, as every delete of a live-set asks.
DeleteIncidentEdges(v) ==
    /\ Len(trail) < MaxOps
    /\ v \in DOMAIN inst.node_incidences
    /\ v \notin LiveNodes(inst)
    /\ Range(node(inst, v)) \subseteq LiveEdges(inst)
    /\ inst' = delete_incident_edges(inst, v)
    /\ trail' = Append(trail, [op |-> "incident", id |-> v, slots |-> <<>>])
    /\ unwound' = FALSE
    /\ UNCHANGED <<input, loaded, base, out>>
    /\ UNCHANGED solveVars

\* The restore that matches the most recent delete not yet undone.
Undo(instance, entry) ==
    CASE entry.op = "node"     -> restore_node(instance, entry.id)
      [] entry.op = "edge"     -> restore_edge(instance, entry.id)
      [] entry.op = "incident" -> restore_incident_edges(instance, entry.id)

Restore ==
    /\ trail # <<>>
    /\ inst' = Undo(inst, Last(trail))
    /\ trail' = Front(trail)
    /\ unwound' = TRUE
    /\ UNCHANGED <<input, loaded, base, out>>
    /\ UNCHANGED solveVars

NextInst ==
    \/ \E v \in DOMAIN inst.node_incidences : DeleteNode(v)
    \/ \E e \in DOMAIN inst.edge_incidences : DeleteEdge(e)
    \/ \E v \in DOMAIN inst.node_incidences : DeleteIncidentEdges(v)
    \/ Restore

SpecInst == InitInst /\ [][NextInst]_vars

\* ------------------------------------------------------ load on any text
\* Texts of at most two lines of at most MaxLineTokens tokens, a token one of
\* the numbers 0, 1, 2 or a word that is no number.
MaxLineTokens == 3
LoadTokens == {"0", "1", "2", "x"}
TokenLines == UNION {[1..l -> LoadTokens] : l \in 0..MaxLineTokens}
LoadInputs ==
    {<<>>} \cup {<<h>> : h \in TokenLines} \cup {<<h, l>> : h \in TokenLines, l \in TokenLines}

InitLoad ==
    /\ input \in LoadInputs
    /\ loaded = NotLoaded
    /\ inst = NoInstance
    /\ base = NoInstance
    /\ trail = <<>>
    /\ unwound = FALSE
    /\ out = NoOut
    /\ SolveIdle

Load ==
    /\ loaded = NotLoaded
    /\ \E r \in load(input) :
          /\ loaded' = r
          /\ inst' = IF r.ok THEN r.instance ELSE NoInstance
          /\ base' = inst'
    /\ UNCHANGED <<input, trail, unwound, out>>
    /\ UNCHANGED solveVars

NextLoad == Load

SpecLoad == InitLoad /\ [][NextLoad]_vars
\* --------------------------------- the lower bound on the sub-instances
\* Largest partial_size handed to calculate.
MaxPartial == 1

NoEmptyLiveEdge(instance) ==
    \A e \in CIV_LiveSet(instance.edges) : edge_degree(instance, e) > 0

PackEdges ==
    /\ out.kind = "none"
    /\ \E packing \in pack_edges(inst) :
          out' = [kind |-> "packing", packing |-> packing]
    /\ UNCHANGED <<input, loaded, inst, base, trail, unwound>>
    /\ UNCHANGED solveVars

Calculate ==
    /\ out.kind = "packing"
    /\ \E partial_size \in 0..MaxPartial :
          out' = [kind |-> "bound", packing |-> out.packing,
                  partial_size |-> partial_size,
                  bound |-> calculate(inst, out.packing, partial_size)]
    /\ UNCHANGED <<input, loaded, inst, base, trail, unwound>>
    /\ UNCHANGED solveVars

NextBound ==
    \/ /\ out.kind = "none"
       /\ \/ \E v \in DOMAIN inst.node_incidences : DeleteNode(v)
          \/ \E e \in DOMAIN inst.edge_incidences : DeleteEdge(e)
          \/ \E v \in DOMAIN inst.node_incidences : DeleteIncidentEdges(v)
    \/ PackEdges
    \/ Calculate

SpecBound == InitInst /\ [][NextBound]_vars

\* ------------------------- lower_bound.rs with the local-search feature
\* SetMinusIterator::next (lower_bound.rs 48-65): a merge of two lists that
\* takes both for ascending.  An item of `set` is passed on when it is smaller
\* than the head of `removed_set`, dropped with that head when equal to it,
\* and the head of `removed_set` is dropped when it is the smaller one.
RECURSIVE SetMinus(_, _)
SetMinus(set, removed_set) ==
    IF set = <<>> THEN <<>>
    ELSE IF removed_set = <<>> THEN set
    ELSE IF Head(set) < Head(removed_set)
         THEN <<Head(set)>> \o SetMinus(Tail(set), removed_set)
    ELSE IF Head(set) = Head(removed_set) THEN SetMinus(Tail(set), Tail(removed_set))
    ELSE SetMinus(set, Tail(removed_set))

\* hit_by (lower_bound.rs 130-135): for each vertex the index of the last
\* packing edge that holds it, INVALID for a vertex no packing edge holds.
HitBy(instance, packing) ==
    [v \in DOMAIN instance.node_incidences |->
        LET ks == {k \in 1..Len(packing) : v \in Range(edge(instance, packing[k]))}
        IN  IF ks = {} THEN INVALID
            ELSE (CHOOSE k \in ks : \A j \in ks : j <= k) - 1]

\* lower_bound.rs 143-155: the packing index that alone blocks an edge,
\* INVALID when no vertex of the edge is hit or two packing edges hit it.
RECURSIVE BlockingIdx(_, _, _)
BlockingIdx(hit_by, node_ids, blocking_idx) ==
    IF node_ids = <<>> THEN blocking_idx
    ELSE LET hit == hit_by[Head(node_ids)]
         IN  IF hit = INVALID THEN BlockingIdx(hit_by, Tail(node_ids), blocking_idx)
             ELSE IF blocking_idx # INVALID /\ blocking_idx # hit THEN INVALID
             ELSE BlockingIdx(hit_by, Tail(node_ids), hit)

\* blocked_by (lower_bound.rs 138-163): per packing index the remaining edges
\* it alone blocks, in the order of `remaining`.
BlockedBy(instance, packing, remaining, hit_by) ==
    [i \in 0..Len(packing) - 1 |->
        SelectSeq(remaining,
                  LAMBDA e : BlockingIdx(hit_by, edge(instance, e), INVALID) = i)]

\* SubsetTrie::find_subset (section 4.6, phase B): the stored edges whose
\* vertices all lie in the query; the trie returns one of them, INVALID when
\* there is none.
find_subset(instance, trie, available_iter) ==
    {other \in trie : Range(edge(instance, other)) \subseteq Range(available_iter)}

\* The loop over one blocked_by list (lower_bound.rs 95-105).  The trie holds
\* the blocked edges seen so far.  The result is the set of pairs
\* (blocked_edge, other_edge) the loop may return, empty when it runs to its
\* end.
RECURSIVE ScanBlocked(_, _, _, _)
ScanBlocked(instance, available_nodes, blocked, trie) ==
    IF blocked = <<>> THEN {}
    ELSE LET blocked_edge == Head(blocked)
             available_iter == SetMinus(available_nodes, edge(instance, blocked_edge))
             found == find_subset(instance, trie, available_iter)
         IN  IF found # {} THEN {<<blocked_edge, other_edge>> : other_edge \in found}
             ELSE ScanBlocked(instance, available_nodes, Tail(blocked),
                              trie \cup {blocked_edge})

\* The loop over the packing (lower_bound.rs 85-108) from index i on.
RECURSIVE ScanPacking(_, _, _, _, _)
ScanPacking(instance, unhit, packing, blocked_by, i) ==
    IF i >= Len(packing) THEN {}
    ELSE IF blocked_by[i] = <<>> THEN ScanPacking(instance, unhit, packing, blocked_by, i + 1)
    ELSE LET available_nodes ==
                 Reverse(SortDescending(unhit \o edge(instance, packing[i + 1])))
             found == ScanBlocked(instance, available_nodes, blocked_by[i], {})
         IN  IF found # {} THEN {[idx |-> i, added |-> pair] : pair \in found}
             ELSE ScanPacking(instance, unhit, packing, blocked_by, i + 1)

\* lower_bound.rs 69-111: the swaps it may return, none when the set is empty.
find_two_opt_swap(instance, packing, blocked_by, hit_by) ==
    ScanPacking(instance,
                SelectSeq(nodes(instance), LAMBDA v : hit_by[v] = INVALID),
                packing, blocked_by, 0)

\* lower_bound.rs 198-209: each edge the removed edge alone blocked is added
\* when none of its vertices is hit; `hit` is the set of vertices hit.
RECURSIVE AddFreed(_, _, _, _, _)
AddFreed(instance, packing, remaining, candidates, hit) ==
    IF candidates = <<>> THEN [packing |-> packing, remaining |-> remaining]
    ELSE LET packing_candidate_edge == Head(candidates)
         IN  IF Range(edge(instance, packing_candidate_edge)) \cap hit = {}
             THEN AddFreed(instance, Append(packing, packing_candidate_edge),
                           SelectSeq(remaining, LAMBDA e : e # packing_candidate_edge),
                           Tail(candidates),
                           hit \cup Range(edge(instance, packing_candidate_edge)))
             ELSE AddFreed(instance, packing, remaining, Tail(candidates), hit)

\* A swap that marks the vertices of both added edges as hit and pushes only
\* the first of them.
ApplySwapForgetsSecond(instance, packing, remaining, blocked_by, hit_by, swap) ==
    LET removed_edge == packing[swap.idx + 1]
        added_edge1  == swap.added[1]
        added_edge2  == swap.added[2]
        hit == ({v \in DOMAIN hit_by : hit_by[v] # INVALID}
                    \ Range(edge(instance, removed_edge)))
               \cup Range(edge(instance, added_edge1))
               \cup Range(edge(instance, added_edge2))
    IN  AddFreed(instance,
                 SelectSeq(packing, LAMBDA e : e # removed_edge) \o <<added_edge1>>,
                 SelectSeq(remaining, LAMBDA e : e # added_edge1 /\ e # added_edge2)
                     \o <<removed_edge>>,
                 blocked_by[swap.idx], hit)

\* lower_bound.rs 177-209: the packing and the remaining edges after a swap.
ApplySwap(instance, packing, remaining, blocked_by, hit_by, swap) ==
    LET removed_edge == packing[swap.idx + 1]
        added_edge1  == swap.added[1]
        added_edge2  == swap.added[2]
        hit == ({v \in DOMAIN hit_by : hit_by[v] # INVALID}
                    \ Range(edge(instance, removed_edge)))
               \cup Range(edge(instance, added_edge1))
               \cup Range(edge(instance, added_edge2))
    IN  AddFreed(instance,
                 SelectSeq(packing, LAMBDA e : e # removed_edge)
                     \o <<added_edge1, added_edge2>>,
                 SelectSeq(remaining, LAMBDA e : e # added_edge1 /\ e # added_edge2)
                     \o <<removed_edge>>,
                 blocked_by[swap.idx], hit)

\* ------------------------ the local search on the sub-instances
\* Hypergraphs on which the local search finds swaps: a packing edge that
\* blocks two or three disjoint edges, and edge lines that are not ascending.
LocalSearchInputs ==
    { Format(2, << <<0, 1>>, <<0>>, <<1>> >>),
      Format(2, << <<0>>, <<0>>, <<1, 0>> >>),
      Format(3, << <<0>>, <<0, 2>>, <<1, 0>> >>),
      Format(3, << <<0, 1, 2>>, <<0>>, <<1>>, <<2>> >>),
      Format(4, << <<0, 1>>, <<0, 2>>, <<1, 3>> >>),
      Format(4, << <<1, 2>>, <<0, 1>>, <<2, 3>>, <<0, 3>> >>),
      Format(6, << <<0, 1>>, <<0, 2, 3>>, <<1, 4, 5>> >>) }

InitLocalSearch ==
    /\ input \in WellFormedInputs \cup ScenarioInputs \cup LocalSearchInputs
    /\ loaded = NotLoaded
    /\ inst \in {r.instance : r \in load(input)}
    /\ base = inst
    /\ trail = <<>>
    /\ unwound = FALSE
    /\ out = NoOut
    /\ SolveIdle

\* pack_edges up to the first iteration of improve_packing_by_local_search
\* (lower_bound.rs 238-252, 115-126).
PackForLocalSearch ==
    /\ out.kind = "none"
    /\ \E packing \in pack_edges_without_local_search(inst, EdgeSortKeys(inst)) :
          out' = [kind |-> "local", packing |-> packing,
                  remaining |-> SelectSeq(edges(inst),
                                          LAMBDA e : e \notin Range(packing)),
                  phase_a |-> packing, before |-> packing,
                  swap |-> [idx |-> INVALID, added |-> <<>>], swaps |-> 0]
    /\ UNCHANGED <<input, loaded, inst, base, trail, unwound>>
    /\ UNCHANGED solveVars

\* One iteration of the loop of improve_packing_by_local_search
\* (lower_bound.rs 128-210): the packing is returned when no swap is found.
LocalSearchIteration ==
    /\ out.kind = "local"
    /\ LET hit_by == HitBy(inst, out.packing)
           blocked_by == BlockedBy(inst, out.packing, out.remaining, hit_by)
           two_opt_swap == find_two_opt_swap(inst, out.packing, blocked_by, hit_by)
       IN  IF two_opt_swap = {}
           THEN out' = [out EXCEPT !.kind = "improved"]
           ELSE \E swap \in two_opt_swap :
                   LET after == ApplySwap(inst, out.packing, out.remaining,
                                          blocked_by, hit_by, swap)
                   IN  out' = [out EXCEPT !.packing = after.packing,
                                          !.remaining = after.remaining,
                                          !.before = out.packing,
                                          !.swap = swap,
                                          !.swaps = @ + 1]
    /\ UNCHANGED <<input, loaded, inst, base, trail, unwound>>
    /\ UNCHANGED solveVars

NextLocalSearch ==
    \/ /\ out.kind = "none"
       /\ \/ \E v \in DOMAIN inst.node_incidences : DeleteNode(v)
          \/ \E e \in DOMAIN inst.edge_incidences : DeleteEdge(e)
          \/ \E v \in DOMAIN inst.node_incidences : DeleteIncidentEdges(v)
    \/ PackForLocalSearch
    \/ LocalSearchIteration

SpecLocalSearch == InitLocalSearch /\ [][NextLocalSearch]_vars

\* ------------------------------------------- the reducer (section 4.5)
\* The vertices of a live edge and the live edges of a live vertex, as sets.
EdgeSet(instance, edge_idx) == Range(edge(instance, edge_idx))
NodeSet(instance, node_idx) == Range(node(instance, node_idx))

\* Edge-superset rule: the live edges that properly contain a live edge.
SupersetEdges(instance) ==
    {e2 \in LiveEdges(instance) :
        \E e1 \in LiveEdges(instance) :
            /\ EdgeSet(instance, e1) \subseteq EdgeSet(instance, e2)
            /\ EdgeSet(instance, e1) # EdgeSet(instance, e2)}

\* Vertex-subset rule: the live vertices whose edges all pass through
\* another live vertex.
SubsetNodes(instance) ==
    {v1 \in LiveNodes(instance) :
        \E v2 \in LiveNodes(instance) \ {v1} :
            NodeSet(instance, v1) \subseteq NodeSet(instance, v2)}

\* Both rules applied to fixpoint in any order; every deletion is recorded
\* as an event of the Reduction.
RECURSIVE PruneFrom(_, _)
PruneFrom(instance, events) ==
    IF SupersetEdges(instance) = {} /\ SubsetNodes(instance) = {}
    THEN {[instance |-> instance, reduction |-> events]}
    ELSE UNION ({PruneFrom(delete_edge(instance, e),
                           Append(events, [kind |-> "edge", id |-> e])) :
                 e \in SupersetEdges(instance)}
                \cup
                {PruneFrom(delete_node(instance, v),
                           Append(events, [kind |-> "node", id |-> v])) :
                 v \in SubsetNodes(instance)})

\* subsuperset::prune: every (reduced instance, Reduction) it may return.
prune(instance) == PruneFrom(instance, <<>>)

\* Reduction::nodes: the vertices the reduction removed, in event order.
RECURSIVE ReductionNodes(_)
ReductionNodes(reduction) ==
    IF reduction = <<>> THEN <<>>
    ELSE (IF Head(reduction).kind = "node" THEN <<Head(reduction).id>> ELSE <<>>)
         \o ReductionNodes(Tail(reduction))

\* Reduction::restore: the events replayed in reverse.
RECURSIVE ReductionRestore(_, _)
ReductionRestore(instance, reduction) ==
    IF reduction = <<>> THEN instance
    ELSE LET ev == Last(reduction)
         IN  ReductionRestore(IF ev.kind = "node" THEN restore_node(instance, ev.id)
                              ELSE restore_edge(instance, ev.id),
                              Front(reduction))

\* ----------------------------------- the reducer on the sub-instances
\* subsuperset::prune followed by Reduction::restore, as solve_recursive
\* pairs them (solve.rs 125 and 176), on the instance as it stands after
\* fewer than MaxOps deletes.
PruneRestore ==
    /\ out.kind = "none"
    /\ Len(trail) < MaxOps
    /\ \E r \in prune(inst) :
          out' = [kind |-> "reduced", instance |-> r.instance,
                  reduction |-> r.reduction,
                  restored |-> ReductionRestore(r.instance, r.reduction)]
    /\ UNCHANGED <<input, loaded, inst, base, trail, unwound>>
    /\ UNCHANGED solveVars

NextReduce ==
    \/ /\ out.kind = "none"
       /\ \/ \E v \in DOMAIN inst.node_incidences : DeleteNode(v)
          \/ \E e \in DOMAIN inst.edge_incidences : DeleteEdge(e)
          \/ \E v \in DOMAIN inst.node_incidences : DeleteIncidentEdges(v)
    \/ PruneRestore

SpecReduce == InitInst /\ [][NextReduce]_vars

\* ------------------------------------ Instance queries used by the driver
\* Instance::max_node_degree: the largest degree of a live vertex.
max_node_degree(instance) ==
    IF LiveNodes(instance) = {} THEN 0
    ELSE CHOOSE d \in {node_degree(instance, v) : v \in LiveNodes(instance)} :
            \A v \in LiveNodes(instance) : node_degree(instance, v) <= d

\* Instance::degree_1_edge: the (edge, vertex) pairs it may return.
degree_1_edge(instance) ==
    {<<e, edge(instance, e)[1]>> : e \in {x \in LiveEdges(instance) : edge_degree(instance, x) = 1}}

\* ------------------------------------- the activity tracker (section 4.7)
\* The tracker is kept by the set of vertices it holds live.  The scores,
\* their decay factor and the direction of the tie-break are left open by
\* section 4.7, so highest may return any live vertex.
ActivitiesNew(instance) == [live |-> LiveNodes(instance)]
ActivitiesDelete(activities, node_idx) == [activities EXCEPT !.live = @ \ {node_idx}]
ActivitiesRestore(activities, node_idx) == [activities EXCEPT !.live = @ \cup {node_idx}]
ActivitiesHighest(activities) == activities.live

RECURSIVE ActivitiesEach(_, _, _)
ActivitiesEach(activities, node_ids, restore) ==
    IF node_ids = <<>> THEN activities
    ELSE ActivitiesEach(IF restore THEN ActivitiesRestore(activities, Head(node_ids))
                        ELSE ActivitiesDelete(activities, Head(node_ids)),
                        Tail(node_ids), restore)

\* ------------------------------------------------------------- solve.rs
\* solve.rs 40-43: the largest (degree, vertex) pair, (0, INVALID) at least.
GreedyMax(instance) ==
    LET pairs == {<<0, INVALID>>} \cup
                 {<<node_degree(instance, v), v>> : v \in LiveNodes(instance)}
    IN  CHOOSE p \in pairs : \A q \in pairs : q = p \/ PairLess(q, p)

\* solve.rs 39-47
RECURSIVE GreedyLoop(_, _)
GreedyLoop(instance, hs) ==
    IF instance.panic \/ edges(instance) = <<>> THEN [instance |-> instance, hs |-> hs]
    ELSE LET max_degree == GreedyMax(instance)
         IN  GreedyLoop(delete_incident_edges(delete_node(instance, max_degree[2]),
                                              max_degree[2]),
                        Append(hs, max_degree[2]))

\* The restore loop without the .rev(): the vertices are restored in the order
\* they were picked in.
RECURSIVE GreedyRestoreForward(_, _)
GreedyRestoreForward(instance, hs) ==
    IF hs = <<>> \/ instance.panic THEN instance
    ELSE GreedyRestoreForward(restore_node(restore_incident_edges(instance, Head(hs)),
                                           Head(hs)),
                              Tail(hs))

\* solve.rs 48-51
RECURSIVE GreedyRestore(_, _)
GreedyRestore(instance, hs) ==
    IF hs = <<>> \/ instance.panic THEN instance
    ELSE GreedyRestore(restore_node(restore_incident_edges(instance, Last(hs)), Last(hs)),
                       Front(hs))

\* solve.rs 36-58
greedy_approx(instance) ==
    LET picked == GreedyLoop(instance, <<>>)
    IN  [hs |-> picked.hs, instance |-> GreedyRestore(picked.instance, picked.hs)]

\* ------------------------------- greedy_approx on the sub-instances
GreedyApprox ==
    /\ out.kind = "none"
    /\ LET approx == greedy_approx(inst)
       IN  out' = [kind |-> "greedy", hs |-> approx.hs, instance |-> approx.instance]
    /\ UNCHANGED <<input, loaded, inst, base, trail, unwound>>
    /\ UNCHANGED solveVars

NextGreedy ==
    \/ /\ out.kind = "none"
       /\ \/ \E v \in DOMAIN inst.node_incidences : DeleteNode(v)
          \/ \E e \in DOMAIN inst.edge_incidences : DeleteEdge(e)
          \/ \E v \in DOMAIN inst.node_incidences : DeleteIncidentEdges(v)
    \/ GreedyApprox

SpecGreedy == InitInst /\ [][NextGreedy]_vars

\* can_prune with the ceiling taken as quotient + 1, one too many whenever
\* max_node_degree divides num_edges.
can_prune_ceil_plus_one(instance, st) ==
    LET rem_lower_bound == num_edges(instance) \div max_node_degree(instance) + 1
        lower_bound == Len(st.incomplete_hs) + rem_lower_bound
    IN  lower_bound >= Len(st.best_known)

\* solve.rs 60-67; the division needs max_node_degree > 0.
can_prune(instance, st) ==
    LET rem_lower_bound == (num_edges(instance) + max_node_degree(instance) - 1)
                           \div max_node_degree(instance)
        lower_bound == Len(st.incomplete_hs) + rem_lower_bound
    IN  lower_bound >= Len(st.best_known)

\* The delete and restore calls of a frame, in the order the code makes them.
\* A call is on the Instance (of a vertex, an edge, or the incident edges of a
\* vertex) or on the activity tracker (of a vertex).
Call(restore, obj, op, id) == [restore |-> restore, obj |-> obj, op |-> op, id |-> id]

\* The deletes of a frame not yet restored, oldest first, and whether every
\* restore so far undid the most recent pending delete on the same object.
NoPending == [trail |-> <<>>, ok |-> TRUE]

RECURSIVE Track(_, _)
Track(pending, calls) ==
    IF calls = <<>> THEN pending
    ELSE LET call  == Head(calls)
             entry == [obj |-> call.obj, op |-> call.op, id |-> call.id]
             tr    == pending.trail
             LastIn(on) == IF on = {} THEN 0 ELSE CHOOSE k \in on : \A j \in on : j <= k
             top   == LastIn({k \in 1..Len(tr) : tr[k].obj = call.obj})
             at    == LastIn({k \in 1..Len(tr) : tr[k] = entry})
             RemoveAt(k) == SubSeq(tr, 1, k - 1) \o SubSeq(tr, k + 1, Len(tr))
         IN  Track(IF ~call.restore
                   THEN [pending EXCEPT !.trail = Append(@, entry)]
                   ELSE IF at # 0 /\ at = top
                   THEN [pending EXCEPT !.trail = RemoveAt(at)]
                   ELSE [trail |-> IF at = 0 THEN tr ELSE RemoveAt(at),
                         ok |-> FALSE],
                   Tail(calls))

\* A frame may return: every delete undone, each in its turn.
Settled(pending) == pending.ok /\ pending.trail = <<>>

\* solve.rs 44-45 for every vertex picked, then 48-51.
GreedyCalls(hs) ==
    LET picks == [k \in 1..2 * Len(hs) |->
                     Call(FALSE, "instance", IF k % 2 = 1 THEN "node" ELSE "incident",
                          hs[(k + 1) \div 2])]
        undos == [k \in 1..2 * Len(hs) |->
                     Call(TRUE, "instance", IF k % 2 = 1 THEN "incident" ELSE "node",
                          Reverse(hs)[(k + 1) \div 2])]
    IN  picks \o undos

\* The deletes of a Reduction on the Instance (subsuperset::prune, or undone
\* in reverse by Reduction::restore), and solve.rs 129-131 or 177-179 on the
\* tracker, both loops over reduction.nodes().
ReductionCalls(reduction, restore) ==
    LET events == IF restore THEN Reverse(reduction) ELSE reduction
    IN  [k \in 1..Len(events) |-> Call(restore, "instance", events[k].kind, events[k].id)]

TrackerCalls(reduction, restore) ==
    [k \in 1..Len(ReductionNodes(reduction)) |->
        Call(restore, "activities", "node", ReductionNodes(reduction)[k])]

\* What a frame found when it was entered (solve.rs 102), when it made its
\* forced move (solve.rs 153) and when it called branch_on (solve.rs 173),
\* kept to compare with what it leaves behind.
NoSaved == [set |-> FALSE]
Saved(instance, st) ==
    [set |-> TRUE, instance |-> instance, incomplete_hs |-> st.incomplete_hs,
     discarded |-> st.discarded, live |-> st.activities.live]

\* A frame of solve_recursive: where it stands, the Reduction it holds, the
\* vertex of its forced move or branch, the branching order drawn, its
\* deletes not yet restored, and what it found at entry (entered), at its
\* forced move (saved) and at its call of branch_on (branched).
NewFrame ==
    [at |-> "entry", reduction |-> <<>>, node |-> INVALID, first |-> FALSE,
     pending |-> NoPending, saved |-> NoSaved, entered |-> NoSaved,
     branched |-> NoSaved]
Top == frames[Len(frames)]
SetTop(frame) == [frames EXCEPT ![Len(frames)] = frame]

\* The hypergraphs solve is run on: the small ones, the scenarios of section
\* 8, and hypergraphs on which the search makes forced moves, branches and
\* improves on the greedy hitting set.
SolveMaxNodes == 3
SolveMaxIncidences == 3
SolveInputs ==
    UNION { {Format(n, es) : es \in EdgeSeqs(n, SolveMaxIncidences)} : n \in 0..SolveMaxNodes }
    \cup ScenarioInputs \cup
    { Format(3, << <<0>>, <<0>>, <<1>>, <<2>> >>),
      Format(4, << <<0, 1, 2, 3>> >>),
      Format(4, << <<0>>, <<1>>, <<2>>, <<3>> >>),
      Format(4, << <<0, 1>>, <<0, 2>>, <<0, 3>>, <<1, 2>>, <<1, 3>>, <<2, 3>> >>),
      Format(5, << <<0, 1>>, <<0, 2>>, <<1, 3>>, <<2, 4>>, <<0, 3, 4>> >>),
      Format(5, << <<0, 1>>, <<2, 3>>, <<0, 2, 4>>, <<1, 3, 4>> >>),
      Format(6, << <<0, 1>>, <<2, 3>>, <<0, 2, 4>>, <<1, 3, 4>> >>),
      Format(6, << <<0, 1>>, <<1, 2>>, <<0, 2>>, <<3, 4>>, <<4, 5>>, <<3, 5>> >>) }

InitSolve ==
    /\ input \in SolveInputs
    /\ loaded = NotLoaded
    /\ inst \in {r.instance : r \in load(input)}
    /\ base = inst
    /\ trail = <<>>
    /\ unwound = FALSE
    /\ out = NoOut
    /\ SolveIdle

\* solve.rs 183-198: the reduction at the top, the greedy bound, the tracker
\* and the State, up to the call of solve_recursive.
Solve ==
    /\ pc = "idle"
    /\ \E r \in prune(inst) :
          LET approx == greedy_approx(r.instance)
          IN  /\ inst' = approx.instance
              /\ IF approx.instance.panic
                 THEN /\ pc' = "panic"
                      /\ UNCHANGED <<state, frames, locals>>
                 ELSE /\ pc' = "search"
                      /\ locals' = [greedy_size |-> Len(approx.hs),
                                    reduction |-> r.reduction, warned |-> FALSE,
                                    matched |-> Settled(Track(NoPending,
                                                              GreedyCalls(approx.hs)))]
                      /\ state' = [incomplete_hs |-> <<>>, discarded |-> <<>>,
                                   best_known |-> approx.hs,
                                   activities |-> ActivitiesNew(approx.instance),
                                   stats |-> [iterations |-> 0]]
                      /\ frames' = <<NewFrame>>
    /\ UNCHANGED <<input, loaded, base, trail, unwound, out, result>>

\* The return of solve_recursive to its caller.
Return ==
    /\ frames' = Front(frames)
    /\ pc' = IF Len(frames) = 1 THEN "returning" ELSE "search"

\* Vec::truncate and copy_from_slice, which asks for equal lengths.
Truncate(v, len) == SubSeq(v, 1, Min(len, Len(v)))
CopyFromSlice(dst, src) == [k \in 1..Len(dst) |-> src[k]]

\* The update with the copy left out: best_known is only cut short.
FoundHittingSetTruncateOnly(st) ==
    [st EXCEPT !.best_known = Truncate(@, Len(st.incomplete_hs))]

\* solve.rs 106-107
FoundHittingSet(st) ==
    [st EXCEPT !.best_known = CopyFromSlice(Truncate(@, Len(st.incomplete_hs)),
                                            st.incomplete_hs)]

\* solve.rs 103-116
BaseCase ==
    /\ pc = "search"
    /\ Top.at = "entry"
    /\ edges(inst) = <<>>
    /\ IF Len(state.incomplete_hs) < Len(state.best_known)
       THEN /\ state' = FoundHittingSet(state)
            /\ UNCHANGED locals
       ELSE /\ locals' = [locals EXCEPT !.warned = TRUE]
            /\ UNCHANGED state
    /\ Return
    /\ UNCHANGED <<input, loaded, inst, base, trail, unwound, out, result>>

\* solve.rs 120-131
Reduce ==
    /\ pc = "search"
    /\ Top.at = "entry"
    /\ edges(inst) # <<>>
    /\ LET iterations == state.stats.iterations + 1
       IN  \E r \in (IF iterations > 1 THEN prune(inst)
                     ELSE {[instance |-> inst, reduction |-> <<>>]}) :
              /\ inst' = r.instance
              /\ state' = [state EXCEPT
                              !.stats.iterations = iterations,
                              !.activities = ActivitiesEach(@, ReductionNodes(r.reduction),
                                                            FALSE)]
              /\ frames' = SetTop([Top EXCEPT
                                      !.at = "decide", !.reduction = r.reduction,
                                      !.entered = Saved(inst, state),
                                      !.pending = Track(@, ReductionCalls(r.reduction, FALSE)
                                                           \o TrackerCalls(r.reduction, FALSE))])
    /\ UNCHANGED <<input, loaded, base, trail, unwound, out, pc, locals, result>>

\* solve.rs 133-152: the bumps and the decay change scores only.
Prune ==
    /\ pc = "search"
    /\ Top.at = "decide"
    /\ IF max_node_degree(inst) = 0
       THEN /\ pc' = "panic"
            /\ UNCHANGED frames
       ELSE /\ can_prune(inst, state)
            /\ frames' = SetTop([Top EXCEPT !.at = "unwind"])
            /\ UNCHANGED pc
    /\ UNCHANGED <<input, loaded, inst, base, trail, unwound, out, state, locals, result>>

\* solve.rs 153-158
ForcedMove ==
    /\ pc = "search"
    /\ Top.at = "decide"
    /\ max_node_degree(inst) > 0
    /\ ~can_prune(inst, state)
    /\ \E found \in degree_1_edge(inst) :
          LET node_idx == found[2]
          IN  /\ inst' = delete_incident_edges(delete_node(inst, node_idx), node_idx)
              /\ state' = [state EXCEPT
                              !.activities = ActivitiesDelete(@, node_idx),
                              !.incomplete_hs = Append(@, node_idx)]
              /\ frames' = Append(SetTop([Top EXCEPT
                                             !.at = "forced", !.node = node_idx,
                                             !.saved = Saved(inst, state),
                                             !.pending = Track(@,
                                                 <<Call(FALSE, "instance", "node", node_idx),
                                                   Call(FALSE, "instance", "incident", node_idx),
                                                   Call(FALSE, "activities", "node", node_idx)>>)]),
                                  NewFrame)
    /\ UNCHANGED <<input, loaded, base, trail, unwound, out, pc, locals, result>>

\* The return from the forced move with instance.restore_node left out.
ForcedReturnWithoutRestoreNode ==
    /\ pc = "search"
    /\ Top.at = "forced"
    /\ state' = [state EXCEPT
                    !.incomplete_hs = Front(@),
                    !.activities = ActivitiesRestore(@, Top.node)]
    /\ inst' = restore_incident_edges(inst, Top.node)
    /\ frames' = SetTop([Top EXCEPT !.at = "unwind"])
    /\ UNCHANGED <<input, loaded, base, trail, unwound, out, pc, locals, result>>

\* solve.rs 159-162
ForcedReturn ==
    /\ pc = "search"
    /\ Top.at = "forced"
    /\ state' = [state EXCEPT
                    !.incomplete_hs = Front(@),
                    !.activities = ActivitiesRestore(@, Top.node)]
    /\ inst' = restore_node(restore_incident_edges(inst, Top.node), Top.node)
    /\ frames' = SetTop([Top EXCEPT
                            !.at = "unwind",
                            !.pending = Track(@,
                                <<Call(TRUE, "activities", "node", Top.node),
                                  Call(TRUE, "instance", "incident", Top.node),
                                  Call(TRUE, "instance", "node", Top.node)>>)])
    /\ UNCHANGED <<input, loaded, base, trail, unwound, out, pc, locals, result>>

\* solve.rs 163-173 and branch_on up to its first call (74-77 or 87-91).
BranchOn ==
    /\ pc = "search"
    /\ Top.at = "decide"
    /\ max_node_degree(inst) > 0
    /\ ~can_prune(inst, state)
    /\ degree_1_edge(inst) = {}
    /\ \E node_idx \in ActivitiesHighest(state.activities), gen \in BOOLEAN :
          /\ IF gen
             THEN /\ inst' = delete_node(inst, node_idx)
                  /\ state' = [state EXCEPT
                                  !.activities = ActivitiesDelete(@, node_idx),
                                  !.discarded = Append(@, node_idx)]
             ELSE /\ inst' = delete_incident_edges(delete_node(inst, node_idx), node_idx)
                  /\ state' = [state EXCEPT
                                  !.activities = ActivitiesDelete(@, node_idx),
                                  !.incomplete_hs = Append(@, node_idx)]
          /\ frames' = Append(SetTop([Top EXCEPT
                                         !.at = "first", !.node = node_idx, !.first = gen,
                                         !.branched = Saved(inst, state),
                                         !.pending = Track(@,
                                             <<Call(FALSE, "instance", "node", node_idx),
                                               Call(FALSE, "activities", "node", node_idx)>>
                                             \o (IF gen THEN <<>>
                                                 ELSE <<Call(FALSE, "instance", "incident",
                                                             node_idx)>>))]),
                              NewFrame)
    /\ UNCHANGED <<input, loaded, base, trail, unwound, out, pc, locals, result>>

\* branch_on between its two calls with instance.delete_incident_edges of
\* solve.rs 79 left out: the include child of the discard-first order runs
\* with the edges of the vertex live.
BranchOnSecondKeepsEdges ==
    /\ pc = "search"
    /\ Top.at = "first"
    /\ IF Top.first
       THEN /\ inst' = inst
            /\ state' = [state EXCEPT !.discarded = Front(@),
                                      !.incomplete_hs = Append(@, Top.node)]
       ELSE /\ inst' = restore_incident_edges(inst, Top.node)
            /\ state' = [state EXCEPT !.incomplete_hs = Front(@),
                                      !.discarded = Append(@, Top.node)]
    /\ frames' = Append(SetTop([Top EXCEPT
                                   !.at = "second",
                                   !.pending = Track(@, <<Call(~Top.first, "instance",
                                                               "incident", Top.node)>>)]),
                        NewFrame)
    /\ UNCHANGED <<input, loaded, base, trail, unwound, out, pc, locals, result>>

\* branch_on between its two calls (solve.rs 78-81 or 92-95).
BranchOnSecond ==
    /\ pc = "search"
    /\ Top.at = "first"
    /\ IF Top.first
       THEN /\ inst' = delete_incident_edges(inst, Top.node)
            /\ state' = [state EXCEPT !.discarded = Front(@),
                                      !.incomplete_hs = Append(@, Top.node)]
       ELSE /\ inst' = restore_incident_edges(inst, Top.node)
            /\ state' = [state EXCEPT !.incomplete_hs = Front(@),
                                      !.discarded = Append(@, Top.node)]
    /\ frames' = Append(SetTop([Top EXCEPT
                                   !.at = "second",
                                   !.pending = Track(@, <<Call(~Top.first, "instance",
                                                               "incident", Top.node)>>)]),
                        NewFrame)
    /\ UNCHANGED <<input, loaded, base, trail, unwound, out, pc, locals, result>>

\* branch_on after its second call (solve.rs 82-85 or 96-98).
BranchOnReturn ==
    /\ pc = "search"
    /\ Top.at = "second"
    /\ IF Top.first
       THEN /\ inst' = restore_node(restore_incident_edges(inst, Top.node), Top.node)
            /\ state' = [state EXCEPT !.incomplete_hs = Front(@),
                                      !.activities = ActivitiesRestore(@, Top.node)]
       ELSE /\ inst' = restore_node(inst, Top.node)
            /\ state' = [state EXCEPT !.discarded = Front(@),
                                      !.activities = ActivitiesRestore(@, Top.node)]
    /\ frames' = SetTop([Top EXCEPT
                            !.at = "unwind",
                            !.pending = Track(@,
                                (IF Top.first
                                 THEN <<Call(TRUE, "instance", "incident", Top.node)>>
                                 ELSE <<>>)
                                \o <<Call(TRUE, "instance", "node", Top.node),
                                     Call(TRUE, "activities", "node", Top.node)>>)])
    /\ UNCHANGED <<input, loaded, base, trail, unwound, out, pc, locals, result>>

\* The return of a frame with reduction.restore(instance) left out.
UnwindWithoutRestore ==
    /\ pc = "search"
    /\ Top.at = "unwind"
    /\ state' = [state EXCEPT
                    !.activities = ActivitiesEach(@, ReductionNodes(Top.reduction), TRUE)]
    /\ locals' = [locals EXCEPT
                     !.matched = @ /\ Settled(Track(Top.pending,
                                                    TrackerCalls(Top.reduction, TRUE)))]
    /\ Return
    /\ UNCHANGED <<input, loaded, inst, base, trail, unwound, out, result>>

\* solve.rs 176-180
Unwind ==
    /\ pc = "search"
    /\ Top.at = "unwind"
    /\ inst' = ReductionRestore(inst, Top.reduction)
    /\ state' = [state EXCEPT
                    !.activities = ActivitiesEach(@, ReductionNodes(Top.reduction), TRUE)]
    /\ locals' = [locals EXCEPT
                     !.matched = @ /\ Settled(Track(Top.pending,
                                                    ReductionCalls(Top.reduction, TRUE)
                                                    \o TrackerCalls(Top.reduction, TRUE)))]
    /\ Return
    /\ UNCHANGED <<input, loaded, base, trail, unwound, out, result>>

\* solve.rs 199-214
SolveReturn ==
    /\ pc = "returning"
    /\ result' = [hs_size |-> Len(state.best_known),
                  greedy_size |-> locals.greedy_size,
                  stats |-> state.stats]
    /\ pc' = "done"
    /\ UNCHANGED <<input, loaded, inst, base, trail, unwound, out, state, frames, locals>>

NextSolve ==
    \/ Solve
    \/ BaseCase
    \/ Reduce
    \/ Prune
    \/ ForcedMove
    \/ ForcedReturn
    \/ BranchOn
    \/ BranchOnSecond
    \/ BranchOnReturn
    \/ Unwind
    \/ SolveReturn

SpecSolve == InitSolve /\ [][NextSolve]_vars

\* solve on every instance load returns: the hypergraphs above and texts
\* outside the input format that load takes all the same (a vertex id that is
\* not below n, an edge line with fewer ids than its degree).
AcceptedInputs ==
    SolveInputs \cup
    { << <<"1", "1">>, <<"1", "1">> >>,
      << <<"1", "1">>, <<"2", "0">> >> }

InitSolveAccepted ==
    /\ input \in AcceptedInputs
    /\ loaded = NotLoaded
    /\ inst \in {r.instance : r \in {x \in load(input) : x.ok}}
    /\ base = inst
    /\ trail = <<>>
    /\ unwound = FALSE
    /\ out = NoOut
    /\ SolveIdle

SpecSolveAccepted == InitSolveAccepted /\ [][NextSolve]_vars

\* ====================================================== the claims: load
\* Reading a text as the input format describes it, apart from the code.
tok_is_number(tok) == tok \in Range(Digits)
tok_value(tok) == (CHOOSE k \in 1..Len(Digits) : Digits[k] = tok) - 1

StrictlyAscending(s) == \A k \in 1..Len(s) - 1 : s[k] < s[k + 1]

\* The entry at every live slot of a vertex's list names an edge slot that
\* holds the vertex and the slot back, and the other way round.
Linkage(instance) ==
    LET ni == instance.node_incidences
        ei == instance.edge_incidences
    IN  /\ \A v \in DOMAIN ni : \A i \in SV_Live(ni[v]) :
              LET e == ni[v].value[i][1]
                  j == ni[v].value[i][2]
              IN  /\ e \in DOMAIN ei
                  /\ j \in DOMAIN ei[e].value
                  /\ ei[e].value[j] = <<v, i>>
        /\ \A e \in DOMAIN ei : \A j \in SV_Live(ei[e]) :
              LET v == ei[e].value[j][1]
                  i == ei[e].value[j][2]
              IN  /\ v \in DOMAIN ni
                  /\ i \in DOMAIN ni[v].value
                  /\ ni[v].value[i] = <<e, j>>

\* The texts whose m edge lines each hold a degree d >= 1 and then exactly d
\* numbers, no number twice (any order), under a header of two numbers.
EdgeLineComplete(line) ==
    /\ Len(line) >= 2
    /\ \A k \in 1..Len(line) : tok_is_number(line[k])
    /\ tok_value(line[1]) = Len(line) - 1
    /\ \A i, j \in 2..Len(line) : line[i] = line[j] => i = j

LinesComplete(text) ==
    /\ Len(ReadLine(text, 1)) = 2
    /\ \A k \in 1..2 : tok_is_number(ReadLine(text, 1)[k])
    /\ \A k \in 1..tok_value(ReadLine(text, 1)[2]) : EdgeLineComplete(ReadLine(text, k + 1))

\* ... and whose vertex ids are all below n: the input format of section 6.
FormatOK(text) ==
    /\ LinesComplete(text)
    /\ \A k \in 1..tok_value(ReadLine(text, 1)[2]) :
          \A i \in 2..Len(ReadLine(text, k + 1)) :
              tok_value(ReadLine(text, k + 1)[i]) < tok_value(ReadLine(text, 1)[1])

\* C5: bidirectional linkage.  After load, every live entry (e, j) at slot i of
\* node_incidences[v] has edge_incidences[e][j] = (v, i), and every live entry
\* (v, i) at slot j of edge_incidences[e] has node_incidences[v][i] = (e, j).
\* Stated for the instances load returns on texts whose lines are complete.
C5_Linkage == (loaded.ok /\ LinesComplete(input)) => Linkage(loaded.instance)

\* C7: sortedness.  For every instance load accepts, node(v) yields the live
\* incident edge ids and edge(e) the live vertex ids in strictly ascending
\* order.  Stated for the texts in the input format, which asks for no
\* particular order of the vertices of an edge line.
C7_Sortedness ==
    (loaded.ok /\ FormatOK(input)) =>
        /\ \A v \in DOMAIN loaded.instance.node_incidences :
              StrictlyAscending(node(loaded.instance, v))
        /\ \A e \in DOMAIN loaded.instance.edge_incidences :
              StrictlyAscending(edge(loaded.instance, e))

\* What the claim C8 says load must reject, read off the text alone.

HeaderRejected(text) ==
    LET header == ReadLine(text, 1)
    IN  \/ Len(header) < 2
        \/ \E k \in 1..Len(header) : ~tok_is_number(header[k])
        \/ Len(header) > 2

EdgeLineRejected(line, n) ==
    \/ Len(line) = 0
    \/ \E k \in 1..Len(line) : ~tok_is_number(line[k])
    \/ tok_value(line[1]) = 0
    \/ \E k \in 2..Len(line) : tok_value(line[k]) >= n

MustReject(text) ==
    \/ HeaderRejected(text)
    \/ LET n == tok_value(ReadLine(text, 1)[1])
           m == tok_value(ReadLine(text, 1)[2])
       IN  \E k \in 1..m : EdgeLineRejected(ReadLine(text, k + 1), n)

\* C8: load returns an error whenever the header line is missing, has a token
\* that is no number or has more than two tokens, an edge line is missing or
\* declares degree 0, any token is no number, or a vertex id is >= n; it
\* returns an Instance only when none of these holds.
C8_LoadRejects == (loaded # NotLoaded) => (loaded.ok <=> ~MustReject(input))

\* ========================================= the claims: instance operations
\* C4: reversibility.  Once every delete has been undone by its restore, in
\* reverse order, the instance equals the initial one exactly: the live sets
\* with their internal order, every incidence list with its links.
C4_Reversible == (trail = <<>>) => inst = base

\* Deletes have been made and all of them undone.
C4_Witness == trail = <<>> /\ unwound /\ inst = base /\ LiveEdges(inst) # {}

NodeSlotLive(instance, v, i) == i \in SV_Live(instance.node_incidences[v])
EdgeSlotLive(instance, e, j) == j \in SV_Live(instance.edge_incidences[e])
Incidences(instance) ==
    UNION { {<<v, i>> : i \in DOMAIN instance.node_incidences[v].value} :
            v \in DOMAIN instance.node_incidences }
EdgeOf(instance, p) == instance.node_incidences[p[1]].value[p[2]][1]
EdgeSlotOf(instance, p) == instance.node_incidences[p[1]].value[p[2]][2]

\* C6 as stated: live-consistency.  For every v in e, v's slot is live in
\* edge_incidences[e] <=> e's slot is live in node_incidences[v] <=> v and e
\* are both live.
C6_LiveConsistency ==
    \A p \in Incidences(inst) :
        LET a == EdgeSlotLive(inst, EdgeOf(inst, p), EdgeSlotOf(inst, p))
            b == NodeSlotLive(inst, p[1], p[2])
            c == p[1] \in LiveNodes(inst) /\ EdgeOf(inst, p) \in LiveEdges(inst)
        IN  (a <=> b) /\ (b <=> c)

\* C6 as amended: v's slot is live in edge_incidences[e] and e's slot is live
\* in node_incidences[v] exactly when v and e are both live; the list of a live
\* edge has live exactly its live vertices and the list of a live vertex has
\* live exactly its live edges.  (The list of a deleted vertex or edge is kept
\* as it was when it was deleted.)
C6_LiveConsistencyAmended ==
    \A p \in Incidences(inst) :
        LET v == p[1]
            e == EdgeOf(inst, p)
            a == EdgeSlotLive(inst, e, EdgeSlotOf(inst, p))
            b == NodeSlotLive(inst, v, p[2])
            c == v \in LiveNodes(inst) /\ e \in LiveEdges(inst)
        IN  /\ (a /\ b) <=> c
            /\ e \in LiveEdges(inst) => (a <=> v \in LiveNodes(inst))
            /\ v \in LiveNodes(inst) => (b <=> e \in LiveEdges(inst))

\* A vertex has been deleted and its own list still holds a live entry.
C6_Witness ==
    \E p \in Incidences(inst) :
        /\ p[1] \notin LiveNodes(inst)
        /\ NodeSlotLive(inst, p[1], p[2])
        /\ ~EdgeSlotLive(inst, EdgeOf(inst, p), EdgeSlotOf(inst, p))
\* ============================================== the claims: lower bound
\* The hypergraph of the text: the vertex set of edge e, read off the input.
TextEdge(text, e) == {tok_value(ReadLine(text, e + 2)[i]) : i \in 2..Len(ReadLine(text, e + 2))}
TextNumEdges(text) == tok_value(ReadLine(text, 1)[2])
TextNumNodes(text) == tok_value(ReadLine(text, 1)[1])

\* The live sub-instance: the live vertices of each live edge.
SubEdge(e) == TextEdge(input, e) \cap LiveNodes(inst)
IsHittingSetOfSub(S) == \A e \in LiveEdges(inst) : S \cap SubEdge(e) # {}
HittingSetsOfSub == {S \in SUBSET LiveNodes(inst) : IsHittingSetOfSub(S)}

\* C9: the packing returned by pack_edges_without_local_search on a live
\* sub-instance without an empty live edge is a set of live edges that are
\* pairwise vertex-disjoint, so it is no larger than any hitting set of the
\* sub-instance.
C9_PackingSound ==
    (out.kind = "packing" /\ NoEmptyLiveEdge(inst)) =>
        LET P == out.packing
        IN  /\ Range(P) \subseteq LiveEdges(inst)
            /\ \A i, j \in 1..Len(P) : i # j => SubEdge(P[i]) \cap SubEdge(P[j]) = {}
            /\ \A S \in HittingSetsOfSub : Len(P) <= Cardinality(S)

\* A packing of two edges on a sub-instance from which something was deleted.
C9_Witness ==
    /\ out.kind = "packing"
    /\ NoEmptyLiveEdge(inst)
    /\ Len(out.packing) >= 2
    /\ trail # <<>>

IsHittingSetOfText(S) ==
    \A e \in 0..TextNumEdges(input) - 1 : S \cap TextEdge(input, e) # {}
MinHittingSetSize ==
    LET sizes == {Cardinality(S) : S \in {T \in SUBSET (0..TextNumNodes(input) - 1) :
                                            IsHittingSetOfText(T)}}
    IN  CHOOSE k \in sizes : \A j \in sizes : k <= j

\* C1: when solve returns, best_known is a hitting set of the input
\* hypergraph (every input edge holds a vertex of best_known), hs_size is
\* |best_known| and hs_size <= greedy_size.
C1_SolverCorrect ==
    pc = "done" =>
        /\ IsHittingSetOfText(Range(state.best_known))
        /\ result.hs_size = Len(state.best_known)
        /\ result.hs_size <= result.greedy_size

\* solve returned a hitting set the search found, smaller than the greedy one.
C1_Witness ==
    /\ pc = "done"
    /\ result.hs_size < result.greedy_size
    /\ IsHittingSetOfText(Range(state.best_known))

\* C2: the hs_size solve returns is the size of a minimum hitting set of the
\* input hypergraph, found by enumerating every set of vertices, whatever the
\* RNG draws.
C2_Optimal == pc = "done" => result.hs_size = MinHittingSetSize

\* solve returned the optimum 2 of the 4-cycle, and an optimum after three
\* or more steps of the search.
C2_Witness ==
    /\ pc = "done"
    /\ result.hs_size = MinHittingSetSize
    /\ \/ input = Format(4, << <<0, 1>>, <<1, 2>>, <<2, 3>>, <<3, 0>> >>) /\ result.hs_size = 2
       \/ result.stats.iterations >= 3

HittingSetsOf(instance) ==
    {S \in SUBSET LiveNodes(instance) :
        \A e \in LiveEdges(instance) :
            S \cap TextEdge(input, e) \cap LiveNodes(instance) # {}}

\* C11: reduction soundness.  The reducer followed by Reduction::restore
\* gives back the identical instance; every hitting set of the reduced
\* instance is a hitting set of the unreduced one, and the unreduced instance
\* has no hitting set smaller than the smallest of the reduced one.
C11_ReductionSound ==
    out.kind = "reduced" =>
        /\ out.restored = inst
        /\ HittingSetsOf(out.instance) \subseteq HittingSetsOf(inst)
        /\ \A S \in HittingSetsOf(inst) :
              \E R \in HittingSetsOf(out.instance) : Cardinality(R) <= Cardinality(S)

\* A reduction that deleted an edge and a vertex of an instance that has a
\* hitting set, restored.
C11_Witness ==
    /\ out.kind = "reduced"
    /\ \E k \in 1..Len(out.reduction) : out.reduction[k].kind = "edge"
    /\ \E k \in 1..Len(out.reduction) : out.reduction[k].kind = "node"
    /\ HittingSetsOf(inst) # {}
    /\ LiveEdges(out.instance) # {}
    /\ out.restored = inst

\* ============================================ the claims: the search frames
\* C12: resource discipline.  In every frame of solve_recursive, branch_on and
\* greedy_approx each delete on the Instance and each delete on the activity
\* tracker is undone by exactly one restore before the frame returns, the
\* restores on an object in the reverse order of its deletes; the tracker's
\* deletes of reduction.nodes() included.
C12_ResourceDiscipline ==
    /\ locals.matched
    /\ \A k \in 1..Len(frames) : frames[k].pending.ok

\* How far solve has come.  The frames are read as the digits of a number,
\* outermost first, a frame by where it stands and a frame not there as 5;
\* before it stands how far solve itself is.
Phase(at) ==
    CASE at = "entry" -> 0
      [] at = "decide" -> 1
      [] at \in {"forced", "first"} -> 2
      [] at = "second" -> 3
      [] at = "unwind" -> 4

RankDigits == TextNumNodes(input) + 1

RECURSIVE FramesRank(_, _)
FramesRank(k, acc) ==
    IF k > RankDigits THEN acc
    ELSE FramesRank(k + 1, 6 * acc + (IF k <= Len(frames) THEN Phase(frames[k].at) ELSE 5))

Rank ==
    FramesRank(1, CASE pc = "idle" -> 0
                    [] pc = "search" -> 1
                    [] pc = "returning" -> 2
                    [] pc \in {"done", "panic"} -> 3)

\* solve has returned, or one of its steps can be taken: a frame about to
\* decide prunes, or finds a forced move, or is given a vertex to branch on.
CanStep ==
    \/ pc \in {"idle", "returning", "done"}
    \/ /\ pc = "search"
       /\ \/ Top.at # "decide"
          \/ max_node_degree(inst) = 0
          \/ can_prune(inst, state)
          \/ degree_1_edge(inst) # {}
          \/ ActivitiesHighest(state.activities) # {}

\* C14: for every instance load accepts and every sequence of RNG outcomes
\* solve never panics and never stands still before it has returned, every
\* step brings it further (so it returns its SolveResult), and the calls of
\* solve_recursive nested inside the first one never number more than n + m.
C14_NeverFails ==
    /\ [](/\ pc # "panic"
          /\ CanStep
          /\ Len(frames) - 1 <= TextNumNodes(input) + TextNumEdges(input))
    /\ [][Rank' > Rank]_vars

\* ============================================== the claims: greedy_approx
\* The instance greedy_approx sees at the start of round k: the vertices
\* picked before, each with its incident edges, deleted.
RECURSIVE GreedyBefore(_, _, _)
GreedyBefore(instance, hs, k) ==
    IF k = 1 THEN instance
    ELSE LET before == GreedyBefore(instance, hs, k - 1)
         IN  delete_incident_edges(delete_node(before, hs[k - 1]), hs[k - 1])

\* C17: greedy_approx on an instance without an empty live edge ends after at
\* most one round per live vertex; each round picks a live vertex of maximal
\* degree; the list returned hits every edge live at entry; the restores are
\* the reverse of the deletes and leave the instance as it was at entry.
C17_GreedySound ==
    (out.kind = "greedy" /\ NoEmptyLiveEdge(inst)) =>
        /\ ~out.instance.panic
        /\ Len(out.hs) <= Cardinality(LiveNodes(inst))
        /\ \A k \in 1..Len(out.hs) :
              LET before == GreedyBefore(inst, out.hs, k)
              IN  /\ out.hs[k] \in LiveNodes(before)
                  /\ LiveEdges(before) # {}
                  /\ \A v \in LiveNodes(before) :
                        node_degree(before, v) <= node_degree(before, out.hs[k])
        /\ LiveEdges(GreedyBefore(inst, out.hs, Len(out.hs) + 1)) = {}
        /\ \A e \in LiveEdges(inst) : Range(out.hs) \cap SubEdge(e) # {}
        /\ Settled(Track(NoPending, GreedyCalls(out.hs)))
        /\ out.instance = inst

\* A greedy run of two rounds or more on a sub-instance some of whose
\* vertices or edges are deleted.
C17_Witness ==
    /\ out.kind = "greedy"
    /\ NoEmptyLiveEdge(inst)
    /\ Len(out.hs) >= 2
    /\ trail # <<>>
    /\ out.instance = inst

\* ================================================= the claims: the search
\* C18: solve_recursive never reaches the base case (no live edge) with
\* |incomplete_hs| >= |best_known|: the warning is never logged, and every
\* visit of the base case makes best_known strictly shorter.
C18_NoWarning ==
    /\ [](~locals.warned)
    /\ [][(pc = "search" /\ Top.at = "entry" /\ edges(inst) = <<>>)
             => Len(state.best_known') < Len(state.best_known)]_vars

\* A frame that is past the base case and about to take the prune decision.
AtDecision == pc = "search" /\ Top.at = "decide" /\ max_node_degree(inst) > 0

\* C19: at every search node past the base case the prune decision is
\* L >= |best_known| with L = |incomplete_hs| + |P| + k the lower bound of
\* calculate for a packing P of pack_edges on the live sub-instance, and a
\* pruned node returns without a recursive call.
C19_PruneByPackingBound ==
    /\ [](AtDecision =>
            \E packing \in pack_edges(inst) :
                can_prune(inst, state) <=>
                    calculate(inst, packing, Len(state.incomplete_hs)).value
                        >= Len(state.best_known))
    /\ [][(AtDecision /\ can_prune(inst, state))
             => (Len(frames') = Len(frames) /\ frames'[Len(frames')].at = "unwind")]_vars

\* A frame that is not pruned and sees a live edge with one live vertex.
AtForcedMove == AtDecision /\ ~can_prune(inst, state) /\ degree_1_edge(inst) # {}

\* C20: a frame that is not pruned and sees a live edge with exactly one live
\* vertex v makes one recursive call, with v pushed onto incomplete_hs and v
\* and its incident edges deleted from the instance and v from the tracker;
\* discarded is left alone, no second call follows, and when the call is back
\* incomplete_hs, discarded, the tracker's live set and the instance are what
\* they were at the forced move.
C20_ForcedMove ==
    /\ [][AtForcedMove =>
            /\ Len(frames') = Len(frames) + 1
            /\ frames'[Len(frames)].at = "forced"
            /\ frames'[Len(frames')].at = "entry"
            /\ LET v == frames'[Len(frames)].node
               IN  /\ \E e \in LiveEdges(inst) : Range(edge(inst, e)) = {v}
                   /\ state'.incomplete_hs = Append(state.incomplete_hs, v)
                   /\ state'.discarded = state.discarded
                   /\ state'.activities.live = state.activities.live \ {v}
                   /\ LiveNodes(inst') = LiveNodes(inst) \ {v}
                   /\ LiveEdges(inst') =
                         {e \in LiveEdges(inst) : v \notin Range(edge(inst, e))}
                   /\ ~inst'.panic]_vars
    /\ [][(pc = "search" /\ Top.at = "forced") =>
            /\ Len(frames') = Len(frames)
            /\ frames'[Len(frames')].at = "unwind"
            /\ Top.saved.set
            /\ inst' = Top.saved.instance
            /\ state'.incomplete_hs = Top.saved.incomplete_hs
            /\ state'.discarded = Top.saved.discarded
            /\ state'.activities.live = Top.saved.live]_vars

\* A forced move below the outermost frame is over: its recursive call, which
\* went past the base case, is back and the frame has put back an instance
\* with two or more live edges.
C20_Witness ==
    /\ pc = "search"
    /\ Len(frames) >= 2
    /\ Top.at = "unwind"
    /\ Top.saved.set
    /\ inst = Top.saved.instance
    /\ state.incomplete_hs = Top.saved.incomplete_hs
    /\ Cardinality(LiveEdges(inst)) >= 2
    /\ Top.node \in LiveNodes(inst)

\* ============================================ the claims: restore traversal
\* The incidence list restore_node or restore_edge walks for a trail entry.
RetainedList(instance, entry) ==
    IF entry.op = "node" THEN instance.node_incidences[entry.id]
    ELSE instance.edge_incidences[entry.id]

\* C16: restore_node(v) and restore_edge(e) walk the retained incidence list
\* in descending slot order, so they restore the cross-side slots in the exact
\* reverse of the order in which the matching delete_node(v) or delete_edge(e)
\* deleted them, and after that the id is back in its live set.
C16_RestoreReversesDelete ==
    [][(/\ trail # <<>>
        /\ trail' = Front(trail)
        /\ Last(trail).op \in {"node", "edge"})
          => /\ restore_slots(RetainedList(inst, Last(trail))) = Reverse(Last(trail).slots)
             /\ Last(trail).id \in (IF Last(trail).op = "node" THEN LiveNodes(inst')
                                     ELSE LiveEdges(inst'))]_vars

\* ======================================= the claims: containers under solve
\* The containers of an instance: the two live sets and every incidence list.
Containers(instance) ==
    {instance.nodes, instance.edges}
    \cup {instance.node_incidences[v] : v \in DOMAIN instance.node_incidences}
    \cup {instance.edge_incidences[e] : e \in DOMAIN instance.edge_incidences}

\* C15: during a run of solve, on each container (the node live set, the edge
\* live set, every node_incidences[v] and every edge_incidences[e]) the
\* deletes and restores nest: every restore is of the id deleted last among
\* those not yet restored in that container, no id is deleted while deleted
\* and none restored while live.
C15_ContainerLifo == \A c \in Containers(inst) : c.lifo

\* A frame below the outermost one has restored what it deleted while two
\* vertices are still deleted from the live set and two slots from one list.
C15_Witness ==
    /\ pc = "search"
    /\ Len(frames) >= 2
    /\ Top.at = "unwind"
    /\ Len(inst.nodes.deleted) >= 2
    /\ \E c \in Containers(inst) : c # inst.nodes /\ c # inst.edges /\ Len(c.deleted) >= 2
    /\ \A c \in Containers(inst) : c.lifo

\* ================================================ the claims: branch_on
\* A frame that is not pruned, has no forced move and calls branch_on.
AtBranch == AtDecision /\ ~can_prune(inst, state) /\ degree_1_edge(inst) = {}

\* The live sets and the two stacks are those of a snapshot.
SameAs(snapshot) ==
    /\ LiveNodes(inst) = LiveNodes(snapshot.instance)
    /\ LiveEdges(inst) = LiveEdges(snapshot.instance)
    /\ state.incomplete_hs = snapshot.incomplete_hs
    /\ state.discarded = snapshot.discarded

\* The same of the next state.
SameNext(snapshot) ==
    /\ LiveNodes(inst') = LiveNodes(snapshot.instance)
    /\ LiveEdges(inst') = LiveEdges(snapshot.instance)
    /\ state'.incomplete_hs = snapshot.incomplete_hs
    /\ state'.discarded = snapshot.discarded

\* The discard child of branch_on(v): v deleted and on top of discarded, the
\* edges of v live.  The include child: v deleted and on top of incomplete_hs,
\* the edges of v deleted.  Both relative to the snapshot b taken at the call.
DiscardSide(b, v) ==
    /\ LiveNodes(inst) = LiveNodes(b.instance) \ {v}
    /\ LiveEdges(inst) = LiveEdges(b.instance)
    /\ Range(node(b.instance, v)) \subseteq LiveEdges(inst)
    /\ state.discarded = Append(b.discarded, v)
    /\ state.incomplete_hs = b.incomplete_hs

IncludeSide(b, v) ==
    /\ LiveNodes(inst) = LiveNodes(b.instance) \ {v}
    /\ LiveEdges(inst) = LiveEdges(b.instance) \ Range(node(b.instance, v))
    /\ state.incomplete_hs = Append(b.incomplete_hs, v)
    /\ state.discarded = b.discarded

\* The frame inside branch_on whose child is at its entry or has just
\* returned: the caller of the top frame, or the top frame itself.
Brancher ==
    IF Top.at = "entry" /\ Len(frames) >= 2 THEN frames[Len(frames) - 1] ELSE Top

\* C21: in both orders of branch_on(v) the discard child runs with v deleted,
\* v on top of discarded and the edges of v live, the include child with v
\* deleted, v on top of incomplete_hs and the edges of v deleted; each child
\* is called once; and when branch_on returns, as when any call of
\* solve_recursive returns, the live sets of the instance, incomplete_hs and
\* discarded are what they were at its entry.
C21_BranchBrackets ==
    /\ []((pc = "search" /\ Top.at \in {"entry", "first", "second"}
                          /\ Brancher.at \in {"first", "second"})
            => /\ Brancher.node \in LiveNodes(Brancher.branched.instance)
               /\ IF Brancher.first <=> (Brancher.at = "first")
                  THEN DiscardSide(Brancher.branched, Brancher.node)
                  ELSE IncludeSide(Brancher.branched, Brancher.node))
    /\ [][AtBranch =>
            /\ Len(frames') = Len(frames) + 1
            /\ frames'[Len(frames)].at = "first"
            /\ frames'[Len(frames')].at = "entry"]_vars
    /\ [][(pc = "search" /\ Top.at = "first") =>
            /\ Len(frames') = Len(frames) + 1
            /\ frames'[Len(frames)].at = "second"
            /\ frames'[Len(frames)].node = Top.node
            /\ frames'[Len(frames)].first = Top.first
            /\ frames'[Len(frames')].at = "entry"]_vars
    /\ [][(pc = "search" /\ Top.at = "second") =>
            /\ Len(frames') = Len(frames)
            /\ frames'[Len(frames')].at = "unwind"
            /\ SameNext(Top.branched)]_vars
    /\ [][(pc = "search" /\ Top.at = "unwind") =>
            /\ frames' = Front(frames)
            /\ SameNext(Top.entered)]_vars
    /\ [][(pc = "search" /\ Top.at = "entry" /\ edges(inst) = <<>>) =>
            /\ frames' = Front(frames)
            /\ LiveNodes(inst') = LiveNodes(inst)
            /\ LiveEdges(inst') = LiveEdges(inst)
            /\ state'.incomplete_hs = state.incomplete_hs
            /\ state'.discarded = state.discarded]_vars

\* branch_on has returned in a frame below the outermost one, in the order
\* discard first, after children that went past the base case, and the live
\* sets and the stacks are those of its entry.
C21_Witness ==
    /\ pc = "search"
    /\ Len(frames) >= 2
    /\ Top.at = "unwind"
    /\ Top.branched.set
    /\ Top.first
    /\ SameAs(Top.branched)
    /\ state.stats.iterations >= 4
    /\ Cardinality(LiveEdges(inst)) >= 2

\* ============================================ the claims: no empty edge
\* Every live edge holds a live vertex, and where an edge is live some live
\* vertex has positive degree (what the debug assertion and the division of
\* can_prune ask for, solve.rs 63-64).
DegreeOK(instance) ==
    /\ \A e \in LiveEdges(instance) :
          Range(edge(instance, e)) \cap LiveNodes(instance) # {}
    /\ LiveEdges(instance) # {} => max_node_degree(instance) > 0

\* C23: at every entry of solve_recursive, at every call of can_prune and in
\* every round of greedy_approx every live edge has a live vertex, so that
\* max_node_degree > 0 whenever an edge is live.
C23_NoEmptyLiveEdge ==
    /\ pc = "idle" =>
          \A r \in prune(inst) :
              LET hs == GreedyLoop(r.instance, <<>>).hs
              IN  \A k \in 1..Len(hs) : DegreeOK(GreedyBefore(r.instance, hs, k))
    /\ (pc = "search" /\ Top.at \in {"entry", "decide"}) => DegreeOK(inst)

\* ============================================ the claims: the local search
\* The edges of a packing are pairwise vertex-disjoint.
PairwiseDisjoint(instance, packing) ==
    \A i, j \in 1..Len(packing) :
        i # j => EdgeSet(instance, packing[i]) \cap EdgeSet(instance, packing[j]) = {}

\* The swap that led to the packing now held: the two added edges share no
\* vertex with each other nor with a packing edge other than the removed one.
SwapDisjoint ==
    LET b1 == out.swap.added[1]
        b2 == out.swap.added[2]
        others == {out.before[k] : k \in 1..Len(out.before) \ {out.swap.idx + 1}}
    IN  /\ EdgeSet(inst, b1) \cap EdgeSet(inst, b2) = {}
        /\ \A p \in others :
              /\ EdgeSet(inst, b1) \cap EdgeSet(inst, p) = {}
              /\ EdgeSet(inst, b2) \cap EdgeSet(inst, p) = {}

\* The packing grows with every swap: it ends after at most as many swaps as
\* there are live edges, and is never smaller than the packing of phase A.
SwapGrows ==
    /\ out.swaps >= 1 => Len(out.packing) > Len(out.before)
    /\ out.swaps <= Cardinality(LiveEdges(inst))
    /\ Len(out.packing) >= Len(out.phase_a)

\* C22: every swap find_two_opt_swap returns adds two edges that are disjoint
\* from each other and from every other packing edge, so the packing held at
\* the start of every iteration of improve_packing_by_local_search is a set of
\* pairwise vertex-disjoint live edges, larger than the one before; the loop
\* ends and the packing returned is at least as large as that of phase A.
C22_SwapKeepsPacking ==
    out.kind \in {"local", "improved"} =>
        /\ out.swaps >= 1 => SwapDisjoint
        /\ Range(out.packing) \subseteq LiveEdges(inst)
        /\ PairwiseDisjoint(inst, out.packing)
        /\ SwapGrows

\* Every live edge outside the packing shares a vertex with a packing edge.
Maximal(instance, packing) ==
    \A e \in LiveEdges(instance) \ Range(packing) :
        \E p \in Range(packing) : EdgeSet(instance, e) \cap EdgeSet(instance, p) # {}

\* C24: the packing of pack_edges_without_local_search is maximal, and so is
\* the packing held at the start of every iteration of
\* improve_packing_by_local_search and the one it returns.
C24_PackingMaximal ==
    out.kind \in {"local", "improved"} =>
        /\ Maximal(inst, out.phase_a)
        /\ Maximal(inst, out.packing)

\* An iteration starts after a swap that took one edge out of a packing of
\* disjoint edges and put two disjoint edges in, with edges left outside.
C24_Witness ==
    /\ out.kind = "local"
    /\ out.swaps >= 1
    /\ Len(out.packing) = Len(out.before) + 1
    /\ PairwiseDisjoint(inst, out.packing)
    /\ out.remaining # <<>>

====
